---- MODULE Spec2Model ----
(***************************************************************************)
(* Model of qcodes/measurement.py: the Measurement context manager (the    *)
(* running-measurement pointer, loop geometry, action indices, data and    *)
(* set arrays, masking) and the Sweep iterator.                            *)
(*                                                                         *)
(* The handlers of the source are pure operators over a record S holding   *)
(* every field of the program state, so that a handler that calls another  *)
(* handler (measure -> _measure_value -> _add_measurement_result ->        *)
(* _create_data_array -> _add_set_arrays) is the composition of the        *)
(* operators.  An action applies one handler, as one thread of the user's  *)
(* program calls it, and commits the record to the variables.              *)
(***************************************************************************)
EXTENDS Integers, Sequences, FiniteSets, TLC

(* ------------------------------ bounds -------------------------------- *)
NSess == 3          \* Measurement objects the program constructs
NThreads == 2       \* threads: 1 runs measurements, 2 is a second thread
MaxVal == 1         \* values are 0..MaxVal
MaxLen == 2         \* longest sweep sequence
MaxIdx == 1         \* largest last component of action_indices a call starts at
MaxDepth == 3       \* deepest stack of open with/for blocks of one thread
MaxMasks == 2       \* most mask records the program pushes itself at one time
MaxStack == 4       \* most mask records on the stack of the one Measurement of SpecOrder
MaxStmts == 6       \* most statements of a program
MaxActions == 2     \* most actions registered with one Measurement or with the class
MaxSkip == 2        \* largest N of skip(N) and revert(N)

(* ------------------------- program constants -------------------------- *)
max_arrays == 100

Sessions == 1..NSess
Threads == 1..NThreads
Values == 0..MaxVal
NoSess == 0         \* None, as the running measurement
NoThread == 0       \* None, as the measurement thread
Class == 0          \* the class Measurement, as the owner of a list of actions
Owners == {Class} \cup Sessions
NoneT == <<-1>>     \* None, as loop_shape / loop_indices / action_indices
Names == {"a", "b"}

VARIABLES
    running,              \* Measurement.running_measurement
    measurement_thread,   \* Measurement.measurement_thread
    is_context_manager,   \* [Sessions -> BOOLEAN]
    is_paused,            \* [Sessions -> BOOLEAN]
    is_stopped,           \* [Sessions -> BOOLEAN]
    loop_shape,           \* [Sessions -> tuple]
    loop_indices,         \* [Sessions -> tuple]
    action_indices,       \* [Sessions -> tuple]
    action_names,         \* [Sessions -> [addresses -> name]]
    data_groups,          \* [Sessions -> [addresses -> session]]  (_data_groups)
    masked_properties,    \* [Sessions -> Seq(mask record)]
    data_arrays,          \* [addresses -> array id], dict of the running measurement
    set_arrays,           \* [addresses -> array id], dict of the running measurement
    arrays,               \* Seq(array): dataset.arrays of the newest dataset, in creation order
    dataset,              \* the newest dataset: [owner, active, finalized, saved]
    target,               \* [Targets -> Values]: parameter values, attributes, dict entries
    broken,               \* targets whose setter raises at present (a device fault)
    frames,               \* [Threads -> Seq(frame)]: open with/for blocks of each thread
    exc,                  \* [Threads -> exception in flight, "" if none]
    last,                 \* the last handler call and what it did (an observation)
    labels,               \* observation: the action first performed at each position
    drift,                \* observation: some position saw two different actions
    log,                  \* observation: the scalar measured at <<address, loop indices>>
    swept,                \* observation: the sequence of the sweep started at an address
    first_value,          \* observation: the value of each target before its first
                          \* mask since the outermost measurement was entered (-1: none)
    except_actions,       \* [Owners -> Seq(action)]: self.except_actions, Measurement.except_actions
    final_actions         \* [Owners -> Seq(action)]: self.final_actions, Measurement.final_actions

vars == <<running, measurement_thread, is_context_manager, is_paused, is_stopped,
          loop_shape, loop_indices, action_indices, action_names, data_groups,
          masked_properties, data_arrays, set_arrays, arrays, dataset, target,
          broken, frames, exc, last, labels, drift, log, swept, first_value,
                   except_actions, final_actions>>

(* ------------------------------ helpers ------------------------------- *)
Range(n) == [i \in 1..n |-> i - 1]
Shifted(n) == [i \in 1..n |-> i % (MaxVal + 1)]
Last(s) == s[Len(s)]
Front(s) == SubSeq(s, 1, Len(s) - 1)
Prefix(s, k) == SubSeq(s, 1, k)
IsPrefix(p, s) == Len(p) <= Len(s) /\ SubSeq(s, 1, Len(p)) = p
Put(f, k, v) == [x \in DOMAIN f \cup {k} |-> IF x = k THEN v ELSE f[x]]
Empty == [x \in {} |-> 0]
Reverse(s) == [i \in 1..Len(s) |-> s[Len(s) + 1 - i]]
\* F applied to the value of e: a local variable assigned once and read often.
Let(e, F(_)) == F(e)

\* The program state as one record, and its commit to the variables.
St ==
    [running |-> running, measurement_thread |-> measurement_thread,
     is_context_manager |-> is_context_manager, is_paused |-> is_paused,
     is_stopped |-> is_stopped, loop_shape |-> loop_shape,
     loop_indices |-> loop_indices, action_indices |-> action_indices,
     action_names |-> action_names, data_groups |-> data_groups,
     masked_properties |-> masked_properties, data_arrays |-> data_arrays,
     set_arrays |-> set_arrays, arrays |-> arrays, dataset |-> dataset,
     target |-> target, broken |-> broken, except_actions |-> except_actions,
     final_actions |-> final_actions, err |-> "", ret |-> <<>>, writes |-> <<>>,
     ran |-> <<>>]

\* How many mask records, on all Measurements, name target tg.
RECURSIVE CountRecords(_, _)
CountRecords(stack, tg) ==
    IF stack = <<>> THEN 0
    ELSE (IF (IF stack[1].type = "parameter" THEN <<stack[1].obj, "value">>
              ELSE IF stack[1].type = "attr" THEN <<stack[1].obj, stack[1].attr>>
              ELSE <<stack[1].obj, stack[1].key>>) = tg THEN 1 ELSE 0)
         + CountRecords(Tail(stack), tg)
RECURSIVE MaskCount(_, _, _)
MaskCount(mp, tg, s) ==
    IF s = 0 THEN 0 ELSE CountRecords(mp[s], tg) + MaskCount(mp, tg, s - 1)

\* first_value after a handler took the state to S.
FirstValues(S) ==
    [tg \in DOMAIN target |->
        IF running = 0 /\ S.running # 0 THEN -1
        ELSE IF /\ first_value[tg] = -1
                /\ MaskCount(S.masked_properties, tg, NSess)
                     > MaskCount(masked_properties, tg, NSess)
        THEN target[tg]
        ELSE first_value[tg]]

Commit(S) ==
    /\ running' = S.running
    /\ measurement_thread' = S.measurement_thread
    /\ is_context_manager' = S.is_context_manager
    /\ is_paused' = S.is_paused
    /\ is_stopped' = S.is_stopped
    /\ loop_shape' = S.loop_shape
    /\ loop_indices' = S.loop_indices
    /\ action_indices' = S.action_indices
    /\ action_names' = S.action_names
    /\ data_groups' = S.data_groups
    /\ masked_properties' = S.masked_properties
    /\ data_arrays' = S.data_arrays
    /\ set_arrays' = S.set_arrays
    /\ arrays' = S.arrays
    /\ dataset' = S.dataset
    /\ target' = S.target
    /\ broken' = S.broken
    /\ first_value' = FirstValues(S)
    /\ except_actions' = S.except_actions
    /\ final_actions' = S.final_actions

Raise(S, e) == [S EXCEPT !.err = e]

(* ------------------------- maskable targets --------------------------- *)
\* "P" is a Parameter, "N" a ParameterNode whose parameters are {"p": P} and
\* which has the plain attribute "a", "D1" and "D2" are dicts with the key "k".
\* A target is <<object, slot>>: the value of P, an attribute, a dict entry.
Objs == {"P", "N", "D1", "D2"}
Dicts == {"D1", "D2"}
PValue == <<"P", "value">>
Targets == {PValue, <<"P", "a">>, <<"N", "a">>, <<"D1", "k">>, <<"D2", "k">>}
NodeParameters(o) == IF o = "N" THEN {"p"} ELSE {}
Slots(o) == IF o \in Dicts THEN {"k"} ELSE IF o = "N" THEN {"p", "a"} ELSE {"a"}
NoSel == ""         \* None, as attr or key

\* obj1 == obj2 in Python: identity, but dicts compare by content.
ObjEq(S, o1, o2) ==
    \/ o1 = o2
    \/ /\ o1 \in Dicts /\ o2 \in Dicts
       /\ S.target[<<o1, "k">>] = S.target[<<o2, "k">>]

\* The target a mask record names.
RecTarget(r) ==
    IF r.type = "parameter" THEN <<r.obj, "value">>
    ELSE IF r.type = "attr" THEN <<r.obj, r.attr>>
    ELSE <<r.obj, r.key>>

\* param(value) / setattr(obj, attr, value) / obj[key] = value
SetTarget(S, tg, v) ==
    IF tg \in S.broken THEN Raise(S, "SetError")
    ELSE [S EXCEPT !.target[tg] = v, !.writes = Append(@, <<tg, v>>)]

(* ------------------- masking: mask / unmask / unmask_all -------------- *)
MaskRecord(type, obj, sel, orig, v) ==
    [type |-> type, obj |-> obj,
     attr |-> IF type = "attr" THEN sel ELSE NoSel,
     key |-> IF type = "key" THEN sel ELSE NoSel,
     original_value |-> orig, value |-> v]

\* _mask_attr, _mask_parameter and _mask_key: read the value, write the new
\* one, append the record to self._masked_properties, return the original.
MaskOne(S, s, type, obj, sel, v) ==
    LET tg == IF type = "parameter" THEN <<obj, "value">> ELSE <<obj, sel>>
        orig == S.target[tg]
        S1 == SetTarget(S, tg, v)
    IN  IF S1.err # "" THEN S1
        ELSE [S1 EXCEPT
                !.masked_properties[s] = Append(@, MaskRecord(type, obj, sel, orig, v)),
                !.ret = Append(@, orig)]

_mask_attr(S, s, obj, attr, v) == MaskOne(S, s, "attr", obj, attr, v)
_mask_parameter(S, s, param, v) == MaskOne(S, s, "parameter", param, NoSel, v)
_mask_key(S, s, obj, key, v) == MaskOne(S, s, "key", obj, key, v)

\* mask(obj, val, **kwargs); kwargs is a sequence of <<key, value>>.  The
\* return value is S.ret: the original values in order (the one original
\* value for a Parameter masked without kwargs).
RECURSIVE MaskKwargs(_, _, _, _)
MaskKwargs(S, s, obj, kwargs) ==
    IF kwargs = <<>> \/ S.err # "" THEN S
    ELSE LET key == kwargs[1][1]
             v == kwargs[1][2]
             S1 == IF obj = "N"
                   THEN IF key \in NodeParameters(obj)
                        THEN _mask_parameter(S, s, "P", v)
                        ELSE _mask_attr(S, s, obj, key, v)
                   ELSE IF obj \in Dicts THEN _mask_key(S, s, obj, key, v)
                   ELSE _mask_attr(S, s, obj, key, v)
         IN  MaskKwargs(S1, s, obj, Tail(kwargs))

mask(S, s, obj, val, kwargs) ==
    IF obj = "N" THEN MaskKwargs(S, s, obj, kwargs)
    ELSE IF obj = "P" /\ kwargs = <<>> THEN _mask_parameter(S, s, obj, val)
    ELSE IF kwargs = <<>> THEN Raise(S, "SyntaxError")
    ELSE MaskKwargs(S, s, obj, kwargs)

\* unmask(**masked_property, raise_exception=...): the branch that writes one
\* record back.  A failure is logged, and raised only if raise_exception.
UnmaskRecord(S, r, raise_exception) ==
    LET S1 == SetTarget(S, RecTarget(r), r.original_value)
    IN  IF S1.err = "" THEN S1
        ELSE IF raise_exception THEN S1
        ELSE [S1 EXCEPT !.err = ""]

\* The records of `stack` from index 1 up to i, written back in that order.
RECURSIVE UnmaskDown_oldest_first(_, _, _, _)
UnmaskDown_oldest_first(S, stack, i, raise_exception) ==
    IF i = 0 \/ S.err # "" THEN S
    ELSE Let(UnmaskDown_oldest_first(S, stack, i - 1, raise_exception), LAMBDA S1 :
             IF S1.err # "" THEN S1 ELSE UnmaskRecord(S1, stack[i], raise_exception))

\* The records of `stack` from index i down to 1, written back in that order.
RECURSIVE UnmaskDown(_, _, _, _)
UnmaskDown(S, stack, i, raise_exception) ==
    IF i = 0 \/ S.err # "" THEN S
    ELSE UnmaskDown(UnmaskRecord(S, stack[i], raise_exception), stack, i - 1,
                    raise_exception)

\* unmask(obj, attr, key) without original_value: which records it selects.
Selected(S, r, obj, attr, key) ==
    /\ ObjEq(S, r.obj, obj)
    /\ attr = NoSel \/ r.attr = attr
    /\ key = NoSel \/ r.key = key

RECURSIVE PartitionSeq(_, _, _, _, _, _)
PartitionSeq(S, stack, obj, attr, key, want) ==
    IF stack = <<>> THEN <<>>
    ELSE LET rest == PartitionSeq(S, Tail(stack), obj, attr, key, want)
         IN  IF Selected(S, stack[1], obj, attr, key) = want
             THEN <<stack[1]>> \o rest ELSE rest

\* unmask that writes the selected records back and keeps them on the stack.
unmask_keep_records(S, s, obj, attr, key) ==
    LET unmask_properties == PartitionSeq(S, S.masked_properties[s], obj, attr, key, TRUE)
    IN  UnmaskDown(S, unmask_properties, Len(unmask_properties), TRUE)

\* unmask(obj, attr=None, key=None): the selected records are written back
\* newest first (each with raise_exception left at its default, True), then
\* the stack is replaced by the records not selected.
unmask(S, s, obj, attr, key) ==
    LET stack == S.masked_properties[s]
        unmask_properties == PartitionSeq(S, stack, obj, attr, key, TRUE)
        remaining == PartitionSeq(S, stack, obj, attr, key, FALSE)
        S1 == UnmaskDown(S, unmask_properties, Len(unmask_properties), TRUE)
    IN  IF S1.err # "" THEN S1
        ELSE [S1 EXCEPT !.masked_properties[s] = remaining]

\* unmask_all without the final clear().
unmask_all_no_clear(S, s) ==
    UnmaskDown(S, S.masked_properties[s], Len(S.masked_properties[s]), FALSE)

\* unmask_all(): every record newest first, failures swallowed, then clear().
unmask_all(S, s) ==
    LET stack == S.masked_properties[s]
        S1 == UnmaskDown(S, stack, Len(stack), FALSE)
    IN  [S1 EXCEPT !.masked_properties[s] = <<>>]

(* ----------------------- results and data arrays ---------------------- *)
\* A result: a scalar, a numpy array (constant-filled, of a given shape), a
\* list of integers, or the np.arange coordinates of one axis broadcast to
\* `shape`.  shape is np.shape(result).
Scalar(v) == [kind |-> "scalar", shape |-> <<>>, v |-> v, items |-> <<>>]
NdArray(sh, v) == [kind |-> "ndarray", shape |-> sh, v |-> v, items |-> <<>>]
List(items) == [kind |-> "list", shape |-> <<Len(items)>>, v |-> 0, items |-> items]
Arange(sh, axis) == [kind |-> "arange", shape |-> sh, v |-> axis, items |-> <<>>]
IsArrayOrList(res) == res.kind \in {"ndarray", "list", "arange"}

\* The shape of the array `result` is turned into before its axes are walked:
\* np.ndarray(list) takes the list as a SHAPE, a numpy array keeps its own.
ConvertedShape(res) == IF res.kind = "list" THEN res.items ELSE res.shape

\* Element e (a 0-based index tuple) of a result.
Elem(res, e) ==
    IF res.kind = "list" THEN res.items[e[1] + 1]
    ELSE IF res.kind = "arange" THEN e[res.v + 1]
    ELSE res.v

RECURSIVE SeqMax(_)
SeqMax(s) == IF s = <<>> THEN 0
             ELSE IF s[1] > SeqMax(Tail(s)) THEN s[1] ELSE SeqMax(Tail(s))
AllIdx(shape) ==
    {f \in [1..Len(shape) -> 0..(SeqMax(shape) - 1)] :
        \A i \in 1..Len(shape) : f[i] < shape[i]}
Zeros(k) == [i \in 1..k |-> 0]
Digit(k) == <<"0", "1", "2", "3", "4">>[k + 1]

\* array[idx] = value, as numpy does it: idx may be shorter than the shape,
\* the value is then written to every element below idx.
WriteArr(S, id, idx, res) ==
    LET a == S.arrays[id]
        rem == SubSeq(a.shape, Len(idx) + 1, Len(a.shape))
    IN  IF id \notin 1..Len(S.arrays) THEN S   \* an array of an older dataset
        ELSE IF Len(idx) > Len(a.shape) THEN Raise(S, "IndexError")
        ELSE IF \E i \in 1..Len(idx) : idx[i] >= a.shape[i] \/ idx[i] < 0
        THEN Raise(S, "IndexError")
        ELSE IF res.shape # <<>> /\ res.shape # rem THEN Raise(S, "ValueError")
        ELSE LET new == {idx \o e : e \in AllIdx(rem)}
                 data == [j \in DOMAIN a.data \cup new |->
                            IF j \in new
                            THEN Elem(res, SubSeq(j, Len(idx) + 1, Len(j)))
                            ELSE a.data[j]]
             IN  [S EXCEPT !.arrays[id].data = data]

\* _create_data_array(..., is_setpoint=True): the array of shape
\* loop_shape + np.shape(result), registered in the dataset and in set_arrays.
\* Its id is Len(arrays) afterwards.
CreateSetpointArray(S, ai, res, name) ==
    LET m == S.running IN
    IF Cardinality(DOMAIN S.data_arrays) >= max_arrays THEN Raise(S, "TooManyArrays")
    ELSE LET shape0 == S.loop_shape[m] \o res.shape
             arr == [name |-> name, action_indices |-> ai,
                     shape |-> IF shape0 = <<>> THEN <<1>> ELSE shape0,
                     is_setpoint |-> TRUE, set_arrays |-> <<>>, data |-> Empty,
                     dims |-> Len(S.loop_shape[m]), axes |-> Len(res.shape)]
         IN  [S EXCEPT !.arrays = Append(@, arr),
                       !.set_arrays = Put(@, ai, Len(S.arrays) + 1),
                       !.dataset.saved = TRUE]

\* The set arrays found at the proper prefixes action_indices[:k], nearest last.
RECURSIVE PrefixSetArrays(_, _, _)
PrefixSetArrays(S, ai, k) ==
    IF k >= Len(ai) THEN <<>>
    ELSE (IF Prefix(ai, k) \in DOMAIN S.set_arrays
          THEN <<S.set_arrays[Prefix(ai, k)]>> ELSE <<>>)
         \o PrefixSetArrays(S, ai, k + 1)

\* The loop of _add_set_arrays over the axes k.. of the converted result: one
\* set array per axis, at action_indices + (0,) * k.  ids collects them.
RECURSIVE AxisSetArrays(_, _, _, _, _, _)
AxisSetArrays(S, ai, rs, name, k, ids) ==
    IF k >= Len(rs) \/ S.err # "" THEN [S |-> S, ids |-> ids]
    ELSE LET S1 == CreateSetpointArray(S, ai \o Zeros(k), Arange(Prefix(rs, k + 1), k),
                                       name \o "_set" \o Digit(k))
         IN  AxisSetArrays(S1, ai, rs, name, k + 1, Append(ids, Len(S1.arrays)))

\* _add_set_arrays: [S, ids], ids the set arrays of the new data array.
_add_set_arrays(S, ai, res, name) ==
    LET m == S.running
        pre == PrefixSetArrays(S, ai, 1)
    IN  Let(IF IsArrayOrList(res)
            THEN AxisSetArrays(S, ai, ConvertedShape(res), name, 0, pre)
            ELSE [S |-> S, ids |-> pre], LAMBDA ax :
        IF ax.S.err # "" THEN ax
        ELSE IF ax.ids = <<>> /\ ax.S.loop_indices[m] = <<>>
        THEN Let(CreateSetpointArray(ax.S, ax.S.action_indices[m],
                     [res EXCEPT !.shape = ConvertedShape(res)], "None"), LAMBDA S1 :
                 IF S1.err # "" THEN [S |-> S1, ids |-> <<>>]
                 ELSE [S |-> WriteArr(S1, Len(S1.arrays), <<0>>, Scalar(1)),
                       ids |-> <<Len(S1.arrays)>>])
        ELSE ax)

\* _create_data_array(..., is_setpoint=False)
_create_data_array(S, ai, res, name) ==
    LET m == S.running IN
    IF Cardinality(DOMAIN S.data_arrays) >= max_arrays THEN Raise(S, "TooManyArrays")
    ELSE Let(_add_set_arrays(S, ai, res, name), LAMBDA sa :
         LET shape0 == IF IsArrayOrList(res) THEN S.loop_shape[m] \o res.shape
                       ELSE S.loop_shape[m]
             arr == [name |-> name, action_indices |-> ai,
                     shape |-> IF shape0 = <<>> THEN <<1>> ELSE shape0,
                     is_setpoint |-> FALSE, set_arrays |-> sa.ids, data |-> Empty,
                     dims |-> Len(S.loop_shape[m]), axes |-> Len(res.shape)]
         IN  IF sa.S.err # "" THEN sa.S
             ELSE [sa.S EXCEPT !.arrays = Append(@, arr),
                               !.data_arrays = Put(@, ai, Len(sa.S.arrays) + 1),
                               !.dataset.saved = TRUE])

(* ----------------------- storing a measured result -------------------- *)
\* dataset.store(loop_indices, {set array k: coordinates of axis k}) for the
\* set arrays ids[k..] of an array result of converted shape rs.
RECURSIVE StoreAxes(_, _, _, _, _, _)
StoreAxes(S, ids, ndim, rs, li, k) ==
    IF ndim + k >= Len(ids) \/ S.err # "" THEN S
    ELSE StoreAxes(WriteArr(S, ids[ndim + k + 1], li, Arange(Prefix(rs, k + 1), k)),
                   ids, ndim, rs, li, k + 1)

\* _add_measurement_result that creates an array for every result.
_add_measurement_result_always_creates(S, ai, res, name) ==
    LET m == S.running IN
    Let(_create_data_array(S, ai, res, name), LAMBDA S1 :
        IF S1.err # "" THEN S1
        ELSE LET id == S1.data_arrays[ai]
                 a == S1.arrays[id]
                 ndim == Len(S1.loop_indices[m])
                 rs == ConvertedShape(res)
                 li == IF S1.loop_indices[m] = <<>> /\ ~IsArrayOrList(res)
                       THEN <<0>> ELSE S1.loop_indices[m]
             IN  IF a.name # name THEN Raise(S1, "NameConflict")
                 ELSE IF IsArrayOrList(res) /\ Len(a.set_arrays) # ndim + Len(rs)
                 THEN Raise(S1, "ShapeMismatch")
                 ELSE LET S2 == WriteArr(S1, id, li, res)
                      IN  IF IsArrayOrList(res)
                          THEN StoreAxes(S2, a.set_arrays, ndim, rs, li, 0)
                          ELSE S2)

\* _add_measurement_result(action_indices, result, name=name), store=True
_add_measurement_result(S, ai, res, name) ==
    LET m == S.running IN
    Let(IF ai \in DOMAIN S.data_arrays THEN S
        ELSE _create_data_array(S, ai, res, name), LAMBDA S1 :
        IF S1.err # "" THEN S1
        ELSE LET id == S1.data_arrays[ai]
                 a == S1.arrays[id]
                 ndim == Len(S1.loop_indices[m])
                 rs == ConvertedShape(res)
                 li == IF S1.loop_indices[m] = <<>> /\ ~IsArrayOrList(res)
                       THEN <<0>> ELSE S1.loop_indices[m]
             IN  IF a.name # name THEN Raise(S1, "NameConflict")
                 ELSE IF IsArrayOrList(res) /\ Len(a.set_arrays) # ndim + Len(rs)
                 THEN Raise(S1, "ShapeMismatch")
                 ELSE LET S2 == WriteArr(S1, id, li, res)
                      IN  IF IsArrayOrList(res)
                          THEN StoreAxes(S2, a.set_arrays, ndim, rs, li, 0)
                          ELSE S2)

\* get_arrays(action_indices) of Measurement s; NoneT is the default None.
\* The comprehension binds its loop variable to the name action_indices, so
\* its condition compares each key with a slice of itself; the list is in
\* the order of the dict, the order the arrays were created in.
get_arrays(S, s, A) ==
    LET n == Len(IF A = NoneT THEN S.action_indices[s] ELSE A)
        ids == SelectSeq([i \in 1..Len(S.arrays) |-> i],
                   LAMBDA i : /\ ~S.arrays[i].is_setpoint
                              /\ LET key == S.arrays[i].action_indices
                                 IN  /\ key \in DOMAIN S.data_arrays
                                     /\ S.data_arrays[key] = i
                                     /\ Prefix(key, IF n < Len(key) THEN n ELSE Len(key)) = key)
    IN  [S EXCEPT !.ret = ids]

(* --------------------------- action indices --------------------------- *)
\* _verify_action that binds the address to the new name instead of raising.
_verify_action_rebind(S, name) ==
    [S EXCEPT !.action_names[S.running] = Put(@, S.action_indices[S.running], name)]

\* _verify_action(action, name, add_if_new=True), on the running measurement
_verify_action(S, name) ==
    LET m == S.running
        ai == S.action_indices[m]
    IN  IF ai \notin DOMAIN S.action_names[m]
        THEN [S EXCEPT !.action_names[m] = Put(@, ai, name)]
        ELSE IF name # S.action_names[m][ai] THEN Raise(S, "SequenceMismatch")
        ELSE S

\* skip(N) and revert(N) end on the running measurement, whichever
\* measurement they are called on.
skip(S, N) ==
    LET m == S.running IN
    IF m = NoSess THEN Raise(S, "AttributeError")
    ELSE [S EXCEPT !.action_indices[m] = [@ EXCEPT ![Len(@)] = @ + N]]

revert(S, N) ==
    LET m == S.running IN
    IF m = NoSess THEN Raise(S, "AttributeError")
    ELSE [S EXCEPT !.action_indices[m] = [@ EXCEPT ![Len(@)] = @ - N]]

\* step_out that drops the last dimension from loop_shape alone.
step_out_shape_only(S, reduce_dimension) ==
    LET m == S.running IN
    IF m = NoSess THEN Raise(S, "AttributeError")
    ELSE LET S1 == IF reduce_dimension THEN [S EXCEPT !.loop_shape[m] = Front(@)] ELSE S
             ai == Front(S1.action_indices[m])
         IN  IF ai = <<>> THEN Raise(S1, "IndexError")
             ELSE [S1 EXCEPT !.action_indices[m] = [ai EXCEPT ![Len(ai)] = @ + 1]]

\* step_out that leaves the enclosing action index as it is.
step_out_no_increment(S, reduce_dimension) ==
    LET m == S.running IN
    IF m = NoSess THEN Raise(S, "AttributeError")
    ELSE LET S1 == IF reduce_dimension
                   THEN [S EXCEPT !.loop_shape[m] = Front(@),
                                  !.loop_indices[m] = Front(@)]
                   ELSE S
             ai == Front(S1.action_indices[m])
         IN  IF ai = <<>> THEN Raise(S1, "IndexError")
             ELSE [S1 EXCEPT !.action_indices[m] = ai]

\* step_out(reduce_dimension), which also ends on the running measurement
step_out(S, reduce_dimension) ==
    LET m == S.running IN
    IF m = NoSess THEN Raise(S, "AttributeError")
    ELSE LET S1 == IF reduce_dimension
                   THEN [S EXCEPT !.loop_shape[m] = Front(@),
                                  !.loop_indices[m] = Front(@)]
                   ELSE S
             ai == Front(S1.action_indices[m])
         IN  IF ai = <<>> THEN Raise(S1, "IndexError")
             ELSE [S1 EXCEPT !.action_indices[m] = [ai EXCEPT ![Len(ai)] = @ + 1]]

(* ----------------------- __enter__ and __exit__ ----------------------- *)
\* A data group: the Measurement registered at an address.  sess is the
\* object (NoSess for one a measure call constructed itself); such an object
\* is reachable only through data_groups, and loop_indices is what it holds.
DataGroup(s, li) == [sess |-> s, loop_indices |-> li]
GroupLoopIndices(S, g) ==
    IF g.sess # NoSess THEN S.loop_indices[g.sess] ELSE g.loop_indices

\* The else branch of __enter__ for the object self (NoSess: a fresh object
\* no variable holds): register as data group, extend the address.
EnterNested(S, self) ==
    LET m == S.running
        ai == S.action_indices[m]
        S1 == [S EXCEPT !.data_groups[m] = Put(@, ai, DataGroup(self, S.loop_indices[m])),
                        !.action_indices[m] = ai \o <<0>>]
    IN  IF self = NoSess THEN S1
        ELSE [S1 EXCEPT !.loop_shape[self] = S1.loop_shape[m],
                        !.loop_indices[self] = S1.loop_indices[m],
                        !.action_indices[self] = S1.action_indices[m]]

\* __enter__ of Measurement s on thread t (force_cell_thread is off: the
\* program does not run under IPython).
__enter__(S, s, t) ==
    LET S0 == [S EXCEPT !.is_context_manager[s] = TRUE] IN
    IF S0.running = NoSess
    THEN [S0 EXCEPT !.running = s,
                    !.measurement_thread = t,
                    !.dataset = [owner |-> s, active |-> TRUE, finalized |-> FALSE,
                                 saved |-> TRUE],
                    !.arrays = <<>>,
                    !.loop_shape[s] = <<>>,
                    !.loop_indices[s] = <<>>,
                    !.action_indices[s] = <<0>>,
                    !.data_arrays = Empty,
                    !.set_arrays = Empty]
    ELSE IF t # S0.measurement_thread
    THEN \* except: if running_measurement is self, clear it; raise
         Raise([S0 EXCEPT !.running = IF @ = s THEN NoSess ELSE @],
               "ConcurrencyViolation")
    ELSE EnterNested(S0, s)

\* An action of except_actions / final_actions: a callable that returns, or
\* raises an Exception.  What __exit__ did is recorded in S.ran, one event
\* per action called, per unmask_all and per closing of the dataset, with
\* the number of mask records of `self` and the targets at that moment.
Action(raises) == [raises |-> raises]
Event(S, self, label, raised) ==
    [label |-> label, raised |-> raised, masks |-> Len(S.masked_properties[self]),
     target |-> S.target]
Ran(S, self, label, raised) == [S EXCEPT !.ran = Append(@, Event(S, self, label, raised))]

\* The loop of _apply_actions that ends at the first action that raises.
RECURSIVE RunActions_abort(_, _, _, _)
RunActions_abort(S, self, actions, label) ==
    IF actions = <<>> THEN S
    ELSE IF actions[1].raises THEN Ran(S, self, label, TRUE)
    ELSE RunActions_abort(Ran(S, self, label, FALSE), self, Tail(actions), label)

\* The loop of _apply_actions: an action that raises is logged, the loop goes on.
RECURSIVE RunActions(_, _, _, _)
RunActions(S, self, actions, label) ==
    IF actions = <<>> THEN S
    ELSE RunActions(Ran(S, self, label, actions[1].raises), self, Tail(actions), label)

\* _apply_actions(actions, label, clear) in __exit__ of self; the list is
\* except_actions or final_actions (kind) of owner (self or the class).
_apply_actions(S, self, owner, kind, label, clear) ==
    LET actions == IF kind = "except" THEN S.except_actions[owner]
                   ELSE S.final_actions[owner]
        S1 == RunActions(S, self, actions, label)
    IN  IF ~clear THEN S1
        ELSE IF kind = "except" THEN [S1 EXCEPT !.except_actions[owner] = <<>>]
        ELSE [S1 EXCEPT !.final_actions[owner] = <<>>]

\* The end of __exit__ that finalizes the dataset whatever it holds.
ExitTail_always_finalize(S, self, msmt) ==
    IF msmt = self /\ self # NoSess
    THEN Ran([S EXCEPT !.dataset = [@ EXCEPT !.finalized = TRUE,
                                             !.saved = TRUE,
                                             !.active = FALSE]],
             self, "close", FALSE)
    ELSE step_out(S, FALSE)

\* The end of __exit__: the dataset is closed / the address steps out.
ExitTail(S, self, msmt) ==
    IF msmt = self /\ self # NoSess
    THEN LET only_setpoints == \A i \in 1..Len(S.arrays) : S.arrays[i].is_setpoint
         IN  Ran([S EXCEPT !.dataset = [@ EXCEPT !.finalized = ~only_setpoints,
                                                !.saved = TRUE,
                                                !.active = FALSE]],
                 self, "close", FALSE)
    ELSE step_out(S, FALSE)

\* __exit__ that reverts the masks before the local final actions.
__exit__unmask_first(S, s, raised) ==
    LET msmt == S.running
        S1 == IF msmt = s THEN [S EXCEPT !.running = NoSess] ELSE S
        S2 == IF raised THEN _apply_actions(S1, s, s, "except", "except", TRUE) ELSE S1
        S3 == Ran(unmask_all(S2, s), s, "unmask_all", FALSE)
        S4 == _apply_actions(S3, s, s, "final", "final", TRUE)
        S5 == IF msmt = s
              THEN _apply_actions(S4, s, Class, "final", "global final", FALSE)
              ELSE S4
    IN  Let(ExitTail(S5, s, msmt), LAMBDA S6 :
            IF S6.err # "" THEN S6
            ELSE [S6 EXCEPT !.is_context_manager[s] = FALSE])

\* __exit__(exc_type, ...) of Measurement s; raised: exc_type is not None.
\* An error raised inside __exit__ leaves is_context_manager set.
__exit__(S, s, raised) ==
    LET msmt == S.running
        S1 == IF msmt = s THEN [S EXCEPT !.running = NoSess] ELSE S
        S2 == IF raised THEN _apply_actions(S1, s, s, "except", "except", TRUE) ELSE S1
        S3 == IF raised /\ msmt = s
              THEN _apply_actions(S2, s, Class, "except", "global except", TRUE)
              ELSE S2
        S4 == _apply_actions(S3, s, s, "final", "final", TRUE)
        S5 == Ran(unmask_all(S4, s), s, "unmask_all", FALSE)
        S6 == IF msmt = s
              THEN _apply_actions(S5, s, Class, "final", "global final", FALSE)
              ELSE S5
    IN  Let(ExitTail(S6, s, msmt), LAMBDA S7 :
            IF S7.err # "" THEN S7
            ELSE [S7 EXCEPT !.is_context_manager[s] = FALSE])

\* An __exit__ of the fresh object that does not step out of its block.
ImplicitExit_no_step_out(S) == S

\* `with Measurement(name) as msmt:` around body, inside a measure call:
\* __exit__ of the fresh object (no masks of its own) after the body, with
\* or without an exception in flight, which then propagates.
ImplicitExit(S) ==
    LET S1 == step_out([S EXCEPT !.err = ""], FALSE)
    IN  IF S1.err # "" THEN S1 ELSE [S1 EXCEPT !.err = S.err]

(* ------------------------------ measure ------------------------------- *)
\* What is measured: a Parameter (name, and the result its get returns), a
\* MultiParameter or a dict (items: <<key, measurable>> in order), a raw
\* value, a callable (name: its __name__), or something of no supported kind.
NoName == ""        \* None, as the name argument
Parameter(name, res) == [kind |-> "parameter", name |-> name, res |-> res, items |-> <<>>]
MultiParameter(name, items) ==
    [kind |-> "multi", name |-> name, res |-> Scalar(0), items |-> items]
Dict(items) == [kind |-> "dict", name |-> NoName, res |-> Scalar(0), items |-> items]
Raw(res) == [kind |-> "raw", name |-> NoName, res |-> res, items |-> <<>>]
Callable(name) == [kind |-> "callable", name |-> name, res |-> Scalar(0), items |-> <<>>]
Other == [kind |-> "other", name |-> NoName, res |-> Scalar(0), items |-> <<>>]

\* The first lines of measure and of Sweep.__next__, on Measurement s.
MeasureChecks(S, s, t) ==
    IF ~S.is_context_manager[s] THEN "NotContextManager"
    ELSE IF S.is_stopped[s] THEN "Stop"
    ELSE IF t # S.measurement_thread THEN "ConcurrencyViolation"
    ELSE ""

\* _measure_value that verifies the action before it looks at the name.
_measure_value_verify_first(S, res, name) ==
    LET S1 == _verify_action(S, name)
    IN  IF S1.err # "" THEN S1
        ELSE IF name = NoName THEN Raise(S1, "NoName")
        ELSE _add_measurement_result(S1, S1.action_indices[S1.running], res, name)

\* _measure_value(value, name)
_measure_value(S, res, name) ==
    IF name = NoName THEN Raise(S, "NoName")
    ELSE LET S1 == _verify_action(S, name)
         IN  IF S1.err # "" THEN S1
             ELSE _add_measurement_result(S1, S1.action_indices[S1.running], res, name)

\* _measure_parameter that stores the result before it verifies the action.
_measure_parameter_verify_last(S, mb, name) ==
    LET n == IF name = NoName THEN mb.name ELSE name
        S1 == _add_measurement_result(S, S.action_indices[S.running], mb.res, n)
    IN  IF S1.err # "" THEN S1 ELSE _verify_action(S1, n)

\* _measure_parameter(parameter, name)
_measure_parameter(S, mb, name) ==
    LET n == IF name = NoName THEN mb.name ELSE name
        S1 == _verify_action(S, n)
    IN  IF S1.err # "" THEN S1
        ELSE _add_measurement_result(S1, S1.action_indices[S1.running], mb.res, n)

\* The dispatch of measure on the running measurement, after its checks and
\* its pause loop, for every kind but a callable; MeasureItems is the body
\* `for key, val in ...: msmt.measure(val, name=key)` of an implicit nested
\* measurement, whose measure calls end in this dispatch again.
RECURSIVE Dispatch(_, _, _)
RECURSIVE MeasureItems(_, _)
MeasureItems(S, items) ==
    IF items = <<>> \/ S.err # "" THEN S
    ELSE MeasureItems(Dispatch(S, items[1][2], items[1][1]), Tail(items))

\* `with Measurement(name) as msmt:` measuring items
ImplicitMeasurement(S, items) ==
    ImplicitExit(MeasureItems(EnterNested(S, NoSess), items))

Dispatch(S, mb, name) ==
    IF mb.kind = "parameter"
    THEN Let(_measure_parameter(S, mb, name), LAMBDA S1 :
             IF S1.err # "" THEN S1 ELSE skip(S1, 1))
    ELSE IF mb.kind = "multi"
    THEN LET S1 == _verify_action(S, IF name = NoName THEN mb.name ELSE name)
         IN  IF S1.err # "" THEN S1 ELSE ImplicitMeasurement(S1, mb.items)
    ELSE IF mb.kind = "dict"
    THEN IF name = NoName THEN Raise(S, "SyntaxError")
         ELSE LET S1 == _verify_action(S, name)
              IN  IF S1.err # "" THEN S1 ELSE ImplicitMeasurement(S1, mb.items)
    ELSE IF mb.kind = "raw" /\ mb.res.kind \in {"scalar", "ndarray"}
    THEN Let(_measure_value(S, mb.res, name), LAMBDA S1 :
             IF S1.err # "" THEN S1 ELSE skip(S1, 1))
    ELSE Raise(S, "UnsupportedType")

\* _measure_callable up to the call of the callable: the name is verified.
CallableBegin(S, mb, name) ==
    _verify_action(S, IF name = NoName THEN mb.name ELSE name)

\* _measure_callable after the callable returned `returned` (a dict, or
\* Other for a value that is no dict); ai is the address recorded before the
\* call and name the name of the data group.
CallableEnd(S, ai, name, returned) ==
    LET m == S.running
        groups == S.data_groups[m]
        nested == /\ ai \in DOMAIN groups
                  /\ GroupLoopIndices(S, groups[ai]) = S.loop_indices[m]
    IN  IF nested THEN S
        ELSE IF returned.kind # "dict" THEN Raise(S, "SyntaxError")
        ELSE ImplicitMeasurement(S, returned.items)

\* self.measure(offset, name, unit='s', timestamp=False); self.skip(): one of
\* the two time offsets measure stores in timestamp mode, offset the seconds
\* since the measurement started.
TimeOffset(S, offset, name) ==
    Let(Dispatch(S, Raw(Scalar(offset)), name), LAMBDA S1 :
        IF S1.err # "" THEN S1 ELSE skip(S1, 1))

\* measure(measurable, name, timestamp=True) on the running measurement after
\* its checks and its pause loop, for a measurable that is no callable:
\* T_pre, the measurable, T_post.
DispatchTimestamped(S, mb, name, pre, post) ==
    Let(TimeOffset(S, pre, "T_pre"), LAMBDA S1 :
        IF S1.err # "" THEN S1
        ELSE Let(Dispatch(S1, mb, name), LAMBDA S2 :
                 IF S2.err # "" THEN S2 ELSE TimeOffset(S2, post, "T_post")))

\* measure that hands timestamp on to the running measurement.
MeasureWith_passes_timestamp(S, s, mb, name, timestamp, pre, post) ==
    IF timestamp THEN DispatchTimestamped(S, mb, name, pre, post)
    ELSE Dispatch(S, mb, name)

\* measure(measurable, name, timestamp=timestamp) called on Measurement s
\* after the checks: a Measurement that is not the running one hands
\* measurable, name, label, unit and kwargs to the running one, which then
\* runs with its default timestamp=False.
MeasureWith(S, s, mb, name, timestamp, pre, post) ==
    IF s # S.running THEN Dispatch(S, mb, name)
    ELSE IF timestamp THEN DispatchTimestamped(S, mb, name, pre, post)
    ELSE Dispatch(S, mb, name)

\* measure(measurable, name) called on Measurement s by thread t, up to the
\* pause loop: the checks on s, the delegation to the running measurement
\* and its checks.  "" if the call goes on.
MeasureEntry(S, s, t) ==
    LET e == MeasureChecks(S, s, t) IN
    IF e # "" THEN e
    ELSE IF s = S.running THEN ""
    ELSE IF S.running = NoSess THEN "AttributeError"
    ELSE MeasureChecks(S, S.running, t)

(* ------------------------------- Sweep -------------------------------- *)
\* A Sweep object.  is_param: the sequence is a SweepValues of Parameter P.
\* pos counts the values the iterator has produced.
NoSweep ==
    [sequence |-> <<>>, name |-> NoName, reverse |-> FALSE, restore |-> FALSE,
     is_param |-> FALSE, dimension |-> 0, loop_index |-> 0, pos |-> 0, set_array |-> 0]

\* Sweep.__init__ that creates a set array whether or not the address has one.
Sweep__init__always_creates(S, sequence, name, reverse, restore, is_param) ==
    LET m == S.running IN
    IF m = NoSess THEN [S |-> Raise(S, "NoMeasurement"), sw |-> NoSweep]
    ELSE LET ai == S.action_indices[m]
             S1 == CreateSetpointArray(S, ai, NdArray(<<Len(sequence)>>, 0),
                            IF is_param THEN "P"
                            ELSE IF name = NoName THEN "iterator" ELSE name)
         IN  [S |-> S1,
              sw |-> [sequence |-> sequence, name |-> name, reverse |-> reverse,
                      restore |-> restore, is_param |-> is_param,
                      dimension |-> Len(S.loop_shape[m]), loop_index |-> 0, pos |-> 0,
                      set_array |-> IF S1.err # "" THEN 0 ELSE S1.set_arrays[ai]]]

\* Sweep.__init__: [S, sw]
Sweep__init__(S, sequence, name, reverse, restore, is_param) ==
    LET m == S.running IN
    IF m = NoSess THEN [S |-> Raise(S, "NoMeasurement"), sw |-> NoSweep]
    ELSE LET ai == S.action_indices[m]
             S1 == IF ai \in DOMAIN S.set_arrays THEN S
                   ELSE CreateSetpointArray(S, ai, NdArray(<<Len(sequence)>>, 0),
                            IF is_param THEN "P"
                            ELSE IF name = NoName THEN "iterator" ELSE name)
         IN  [S |-> S1,
              sw |-> [sequence |-> sequence, name |-> name, reverse |-> reverse,
                      restore |-> restore, is_param |-> is_param,
                      dimension |-> Len(S.loop_shape[m]), loop_index |-> 0, pos |-> 0,
                      set_array |-> IF S1.err # "" THEN 0 ELSE S1.set_arrays[ai]]]

\* Sweep.__iter__ that leaves the action address as it is.
Sweep__iter__same_address(S, sw, t) ==
    LET m == S.running IN
    IF t # S.measurement_thread THEN [S |-> Raise(S, "ConcurrencyViolation"), sw |-> sw]
    ELSE IF sw.restore /\ ~sw.is_param THEN [S |-> Raise(S, "NotImplementedError"), sw |-> sw]
    ELSE IF m = NoSess THEN [S |-> Raise(S, "AttributeError"), sw |-> sw]
    ELSE LET S1 == IF sw.restore THEN mask(S, m, "P", S.target[PValue], <<>>) ELSE S
             li == IF sw.reverse THEN Len(sw.sequence) - 1 ELSE 0
         IN  IF S1.err # "" THEN [S |-> S1, sw |-> sw]
             ELSE [S |-> [S1 EXCEPT !.loop_shape[m] = @ \o <<Len(sw.sequence)>>,
                                    !.loop_indices[m] = @ \o <<li>>],
                   sw |-> [sw EXCEPT !.loop_index = li, !.pos = 0]]

\* Sweep.__iter__ on thread t: [S, sw]
Sweep__iter__(S, sw, t) ==
    LET m == S.running IN
    IF t # S.measurement_thread THEN [S |-> Raise(S, "ConcurrencyViolation"), sw |-> sw]
    ELSE IF sw.restore /\ ~sw.is_param THEN [S |-> Raise(S, "NotImplementedError"), sw |-> sw]
    ELSE IF m = NoSess THEN [S |-> Raise(S, "AttributeError"), sw |-> sw]
    ELSE LET S1 == IF sw.restore THEN mask(S, m, "P", S.target[PValue], <<>>) ELSE S
             li == IF sw.reverse THEN Len(sw.sequence) - 1 ELSE 0
         IN  IF S1.err # "" THEN [S |-> S1, sw |-> sw]
             ELSE [S |-> [S1 EXCEPT !.loop_shape[m] = @ \o <<Len(sw.sequence)>>,
                                    !.loop_indices[m] = @ \o <<li>>,
                                    !.action_indices[m] = @ \o <<0>>],
                   sw |-> [sw EXCEPT !.loop_index = li, !.pos = 0]]

\* The first lines of Sweep.__next__, up to the pause loop: "" if it goes on.
NextEntry(S) ==
    LET m == S.running IN
    IF m = NoSess THEN "AttributeError"
    ELSE IF ~S.is_context_manager[m] THEN "NotContextManager"
    ELSE IF S.is_stopped[m] THEN "Stop"
    ELSE ""

\* Sweep.__next__ that stores the loop index in the set array, not the value.
Sweep__next__stores_index(S, sw) ==
    LET m == S.running IN
    IF sw.dimension >= Len(S.loop_indices[m])
    THEN [S |-> Raise(S, "IndexError"), sw |-> sw, done |-> FALSE]
    ELSE
    LET S1 == [S EXCEPT !.loop_indices[m][sw.dimension + 1] = sw.loop_index] IN
    IF sw.pos < Len(sw.sequence)
    THEN LET S2 == [S1 EXCEPT !.action_indices[m] = [@ EXCEPT ![Len(@)] = 0]]
             S4 == WriteArr(S2, sw.set_array, S2.loop_indices[m], Scalar(sw.loop_index))
         IN  [S |-> [S4 EXCEPT !.ret = <<sw.sequence[sw.pos + 1]>>],
              sw |-> [sw EXCEPT !.pos = @ + 1, !.loop_index = @ + 1],
              done |-> FALSE]
    ELSE LET S3 == step_out(S1, TRUE)
         IN  [S |-> S3, sw |-> sw, done |-> S3.err = ""]

\* Sweep.__next__ of a sweep whose iterator is not reversed: iter(sequence).
Sweep__next__forward_values(S, sw) ==
    LET m == S.running IN
    IF sw.dimension >= Len(S.loop_indices[m])
    THEN [S |-> Raise(S, "IndexError"), sw |-> sw, done |-> FALSE]
    ELSE
    LET S1 == [S EXCEPT !.loop_indices[m][sw.dimension + 1] = sw.loop_index] IN
    IF sw.pos < Len(sw.sequence)
    THEN LET seq == sw.sequence
             sweep_value == seq[sw.pos + 1]
             S2 == [S1 EXCEPT !.action_indices[m] = [@ EXCEPT ![Len(@)] = 0]]
             S3 == IF sw.is_param THEN SetTarget(S2, PValue, sweep_value) ELSE S2
             S4 == IF S3.err # "" THEN S3
                   ELSE WriteArr(S3, sw.set_array, S3.loop_indices[m], Scalar(sweep_value))
         IN  [S |-> [S4 EXCEPT !.ret = <<sweep_value>>],
              sw |-> IF S4.err # "" THEN [sw EXCEPT !.pos = @ + 1]
                     ELSE [sw EXCEPT !.pos = @ + 1,
                                     !.loop_index = IF sw.reverse THEN @ - 1 ELSE @ + 1],
              done |-> FALSE]
    ELSE LET S2 == IF sw.restore /\ sw.is_param
                   THEN unmask(S1, m, "P", NoSel, NoSel) ELSE S1
             S3 == IF S2.err # "" THEN S2 ELSE step_out(S2, TRUE)
         IN  [S |-> S3, sw |-> sw, done |-> S3.err = ""]

\* Sweep.__next__ after the pause loop: [S, sw, done]; done: StopIteration.
Sweep__next__(S, sw) ==
    LET m == S.running IN
    IF sw.dimension >= Len(S.loop_indices[m])
    THEN [S |-> Raise(S, "IndexError"), sw |-> sw, done |-> FALSE]
    ELSE
    LET S1 == [S EXCEPT !.loop_indices[m][sw.dimension + 1] = sw.loop_index] IN
    IF sw.pos < Len(sw.sequence)
    THEN LET seq == IF sw.reverse THEN Reverse(sw.sequence) ELSE sw.sequence
             sweep_value == seq[sw.pos + 1]
             S2 == [S1 EXCEPT !.action_indices[m] = [@ EXCEPT ![Len(@)] = 0]]
             S3 == IF sw.is_param THEN SetTarget(S2, PValue, sweep_value) ELSE S2
             S4 == IF S3.err # "" THEN S3
                   ELSE WriteArr(S3, sw.set_array, S3.loop_indices[m], Scalar(sweep_value))
         IN  [S |-> [S4 EXCEPT !.ret = <<sweep_value>>],
              sw |-> IF S4.err # "" THEN [sw EXCEPT !.pos = @ + 1]
                     ELSE [sw EXCEPT !.pos = @ + 1,
                                     !.loop_index = IF sw.reverse THEN @ - 1 ELSE @ + 1],
              done |-> FALSE]
    ELSE LET S2 == IF sw.restore /\ sw.is_param
                   THEN unmask(S1, m, "P", NoSel, NoSel) ELSE S1
             S3 == IF S2.err # "" THEN S2 ELSE step_out(S2, TRUE)
         IN  [S |-> S3, sw |-> sw, done |-> S3.err = ""]

(* ---------------------- the threads of the program -------------------- *)
\* A frame is an open block of a thread: `with s:` (kind "with"), `for ... in
\* Sweep(...)` ("for"), the body of a callable being measured ("call"), or a
\* call waiting in its pause loop ("wait").  n counts the actions the thread
\* has completed in the block (in the present iteration, for a sweep).
Frame(kind, s, sw, ai, name, mb, owner) ==
    [kind |-> kind, sess |-> s, sw |-> sw, ai |-> ai, name |-> name, mb |-> mb,
     owner |-> owner, n |-> 0]
WithFrame(s) == Frame("with", s, NoSweep, <<>>, NoName, Other, NoThread)
ForFrame(sw) == Frame("for", NoSess, sw, <<>>, NoName, Other, NoThread)
\* The geometry of the running measurement, kept with the for block that
\* was entered in it.
Geometry(S) ==
    [loop_shape |-> S.loop_shape[S.running], loop_indices |-> S.loop_indices[S.running],
     action_indices |-> S.action_indices[S.running]]
CallFrame(ai, name) == Frame("call", NoSess, NoSweep, ai, name, Other, NoThread)
\* A measure call (owner = NoThread) or a __next__ call on the sweep of thread
\* owner, waiting in the pause loop of Measurement s.
WaitFrame(s, name, mb, owner) == Frame("wait", s, NoSweep, <<>>, name, mb, owner)

\* The innermost block of thread t (kind "none" when it has no open block).
Top(t) ==
    IF frames[t] = <<>> THEN Frame("none", NoSess, NoSweep, <<>>, NoName, Other, NoThread)
    ELSE frames[t][Len(frames[t])]
Push(t, f) == [frames EXCEPT ![t] = Append(@, f)]
Pop(t) == [frames EXCEPT ![t] = Front(@)]
InCall(t) == frames[t] # <<>> /\ Top(t).kind = "call"
\* Thread t is inside a call waiting in a pause loop / has an exception in
\* flight / has a for statement that has not asked for its first value yet.
Waiting(t) == Top(t).kind = "wait"
Blocked(t) == exc[t] # "" \/ Waiting(t)
AtLoopHead(t) == Top(t).kind = "for" /\ Top(t).sw.pos = 0
Busy(t) == Blocked(t) \/ AtLoopHead(t)
\* The Measurement objects thread t has open, innermost last.
RECURSIVE OpenSess(_)
OpenSess(fs) ==
    IF fs = <<>> THEN <<>>
    ELSE OpenSess(Front(fs)) \o (IF Last(fs).kind = "with" THEN <<Last(fs).sess>> ELSE <<>>)

\* The position of the thread in its program: the counts of its open blocks.
RECURSIVE Pos(_)
Pos(fs) ==
    IF fs = <<>> THEN <<>>
    ELSE Pos(Front(fs)) \o (IF Last(fs).kind \in {"with", "for"} THEN <<Last(fs).n>> ELSE <<>>)

\* One more action completed in the innermost block.
Count(fs, k) == IF fs = <<>> THEN fs ELSE [fs EXCEPT ![Len(fs)].n = @ + k]

\* The name a measure call is registered under.
EffectiveName(mb, name) ==
    IF name = NoName /\ mb.kind \in {"parameter", "multi", "callable"} THEN mb.name
    ELSE name

\* The statement of the program at a position: a measure call, a for
\* statement, a with statement, the end of a with block, the end of a loop body.
MeasureLabel(mb, name) == [tag |-> "measure", mb |-> mb, name |-> name, sequence |-> <<>>]
ForLabel(sequence) == [tag |-> "for", mb |-> Other, name |-> NoName, sequence |-> sequence]
WithLabel == [tag |-> "with", mb |-> Other, name |-> NoName, sequence |-> <<>>]
ExitLabel == [tag |-> "exit", mb |-> Other, name |-> NoName, sequence |-> <<>>]
NextLabel == [tag |-> "next", mb |-> Other, name |-> NoName, sequence |-> <<>>]
LabelName(lb) == IF lb.tag = "measure" THEN EffectiveName(lb.mb, lb.name) ELSE lb.tag

\* The observation of statement lb at position p: the first statement seen
\* there is kept; drift: a position saw statements of two different names.
ObserveAt(p, lb) ==
    /\ labels' = IF p \in DOMAIN labels THEN labels ELSE Put(labels, p, lb)
    /\ drift' = IF p \in DOMAIN labels THEN drift \/ LabelName(labels[p]) # LabelName(lb)
                ELSE drift
Observe(t, lb) == ObserveAt(Pos(frames[t]), lb)

\* Statement lb is what the program did before at the position of thread t
\* (a program without conditionals repeats its loop bodies), or a new
\* statement of a program of at most MaxStmts statements.
Follows(t, lb) ==
    LET p == Pos(IF Waiting(t) THEN Front(frames[t]) ELSE frames[t])
    IN  IF p \in DOMAIN labels THEN labels[p] = lb
        ELSE Cardinality(DOMAIN labels) < MaxStmts

\* The record of the last operation: what was called, by whom, what it
\* raised, returned and wrote.  A mask, unmask or unmask_all also records
\* the targets before it; an unmask or unmask_all the stack it found and,
\* when it directly follows a mask or unmask_all of the same Measurement,
\* that operation.
NoPrior == [op |-> "", call |-> <<>>, ret |-> <<>>, wrote |-> FALSE, user |-> FALSE]
NoBefore == [tg \in {} |-> 0]
Note(op, t, s, S, name, bound, ai) ==
    LET un == op \in {"unmask", "unmask_all"} IN
    [op |-> op, thread |-> t, sess |-> s, err |-> S.err, ret |-> S.ret,
     writes |-> S.writes, ran |-> S.ran, name |-> name, bound |-> bound, ai |-> ai,
     call |-> <<>>, user |-> FALSE,
     before |-> IF un \/ op = "mask" THEN target ELSE NoBefore,
     stack |-> IF un THEN masked_properties[s] ELSE <<>>,
     prior |-> IF un /\ last.op \in {"mask", "unmask_all"} /\ last.sess = s
                     /\ last.err = ""
               THEN [op |-> last.op, call |-> last.call, ret |-> last.ret,
                     wrote |-> last.writes # <<>>,
                     user |-> last.user]
               ELSE NoPrior]

\* A handler returned state S to thread t: the variables, and the exception.
Done(t, S) ==
    /\ Commit(S)
    /\ exc' = [exc EXCEPT ![t] = S.err]

Init ==
    /\ running = NoSess
    /\ measurement_thread = NoThread
    /\ is_context_manager = [s \in Sessions |-> FALSE]
    /\ is_paused = [s \in Sessions |-> FALSE]
    /\ is_stopped = [s \in Sessions |-> FALSE]
    /\ loop_shape = [s \in Sessions |-> NoneT]
    /\ loop_indices = [s \in Sessions |-> NoneT]
    /\ action_indices = [s \in Sessions |-> NoneT]
    /\ action_names = [s \in Sessions |-> Empty]
    /\ data_groups = [s \in Sessions |-> Empty]
    /\ masked_properties = [s \in Sessions |-> <<>>]
    /\ data_arrays = Empty
    /\ set_arrays = Empty
    /\ arrays = <<>>
    /\ dataset = [owner |-> NoSess, active |-> FALSE, finalized |-> FALSE, saved |-> FALSE]
    /\ target = [tg \in Targets |-> 0]
    /\ broken = {}
    /\ except_actions = [o \in Owners |-> <<>>]
    /\ final_actions = [o \in Owners |-> <<>>]
    /\ frames = [t \in Threads |-> <<>>]
    /\ exc = [t \in Threads |-> ""]
    /\ last = Note("init", NoThread, NoSess, St, NoName, NoName, <<>>)
    /\ labels = Empty
    /\ drift = FALSE
    /\ log = Empty
    /\ swept = Empty
    /\ first_value = [tg \in Targets |-> -1]

(* ------------------------------ actions ------------------------------- *)
\* `with s:` entered by thread t.
Enter(t, s) ==
    /\ ~Busy(t)
    /\ Len(frames[t]) < MaxDepth
    /\ LET S == __enter__(St, s, t) IN
       /\ Done(t, S)
       /\ frames' = IF S.err = "" THEN Push(t, WithFrame(s)) ELSE frames
       /\ last' = Note("enter", t, s, S, NoName, NoName,
                       IF running = NoSess THEN <<>> ELSE action_indices[running])
       /\ IF running = NoSess
          THEN labels' = Empty /\ drift' = FALSE
          ELSE IF S.err = "" /\ ~InCall(t) THEN Observe(t, WithLabel)
          ELSE UNCHANGED <<labels, drift>>
       /\ log' = IF running = NoSess THEN Empty ELSE log
       /\ swept' = IF running = NoSess THEN Empty ELSE swept

\* __enter__ statement by statement, as threads interleave in it.  The frame
\* of kind "enter" holds how far the call of thread t has come: "begin"
\* (is_context_manager is set), "outermost" or "nested" (the test of
\* running_measurement is made), "registered" (running_measurement = self),
\* "bound" (measurement_thread = current thread), "opened" (the dataset is
\* created); the with frame of a call
\* that took the outermost branch is named "entered".
EnterFrame(s) == Frame("enter", s, NoSweep, <<>>, "begin", Other, NoThread)
AtEnter(t, step) == exc[t] = "" /\ Top(t).kind = "enter" /\ Top(t).name = step
EnterStep(t, S, step) ==
    /\ Done(t, S)
    /\ frames' = [frames EXCEPT ![t] =
                    IF S.err # "" THEN Front(@)
                    ELSE IF step = "entered"
                    THEN Append(Front(@), [WithFrame(Top(t).sess) EXCEPT !.name = step])
                    ELSE IF step = "done" THEN Append(Front(@), WithFrame(Top(t).sess))
                    ELSE [@ EXCEPT ![Len(@)].name = step]]
    /\ last' = Note("enter_step", t, Top(t).sess, S, step, NoName, <<>>)
    /\ UNCHANGED <<labels, drift, log, swept>>

EnterBegin(t, s) ==
    /\ exc[t] = "" /\ frames[t] = <<>>
    /\ Commit([St EXCEPT !.is_context_manager[s] = TRUE])
    /\ frames' = Push(t, EnterFrame(s))
    /\ last' = Note("enter_step", t, s, St, "begin", NoName, <<>>)
    /\ UNCHANGED <<exc, labels, drift, log, swept>>

EnterTest(t) ==
    /\ AtEnter(t, "begin")
    /\ EnterStep(t, St, IF running = NoSess THEN "outermost" ELSE "nested")

EnterRegister(t) ==
    /\ AtEnter(t, "outermost")
    /\ EnterStep(t, [St EXCEPT !.running = Top(t).sess], "registered")

EnterBind(t) ==
    /\ AtEnter(t, "registered")
    /\ EnterStep(t, [St EXCEPT !.measurement_thread = t], "bound")

EnterOpen(t) ==
    /\ AtEnter(t, "bound")
    /\ LET s == Top(t).sess IN
       EnterStep(t, [St EXCEPT !.dataset = [owner |-> s, active |-> TRUE,
                                            finalized |-> FALSE, saved |-> TRUE],
                               !.arrays = <<>>], "opened")

EnterInitialize(t) ==
    /\ AtEnter(t, "opened")
    /\ LET s == Top(t).sess IN
       EnterStep(t, [St EXCEPT !.loop_shape[s] = <<>>,
                               !.loop_indices[s] = <<>>,
                               !.action_indices[s] = <<0>>,
                               !.data_arrays = Empty,
                               !.set_arrays = Empty], "entered")

EnterElse(t) ==
    /\ AtEnter(t, "nested")
    /\ LET s == Top(t).sess IN
       EnterStep(t, IF t # measurement_thread
                    THEN Raise([St EXCEPT !.running = IF @ = s THEN NoSess ELSE @],
                               "ConcurrencyViolation")
                    ELSE EnterNested(St, s), "done")

\* The end of a `with s:` block, or an exception leaving it: __exit__.
\* The body of the callable at the top of fs has run the block of Measurement
\* s to its end, leaving state S: the block is kept with the callable when
\* it was entered at the address of the measure call.
RanBlock(fs, s, S) ==
    LET A == Last(fs).ai IN
    IF /\ S.err = "" /\ S.running # NoSess /\ A # <<>>
       /\ S.action_indices[S.running] = [A EXCEPT ![Len(A)] = @ + 1]
    THEN [fs EXCEPT ![Len(fs)].sess = s]
    ELSE fs

Exit(t) ==
    /\ frames[t] # <<>>
    /\ Top(t).kind = "with"
    /\ LET s == Top(t).sess
           S == __exit__(St, s, exc[t] # "")
           inCall == Len(frames[t]) > 1 /\ frames[t][Len(frames[t]) - 1].kind = "call"
       IN
       /\ Commit(S)
       /\ exc' = [exc EXCEPT ![t] = IF S.err # "" THEN S.err ELSE @]
       /\ frames' = [frames EXCEPT ![t] = IF inCall THEN RanBlock(Front(@), s, S)
                                           ELSE Count(Front(@), 1)]
       /\ last' = Note(IF exc[t] = "" THEN "exit" ELSE "exit_exc", t, s, S,
                       NoName, NoName, <<>>)
       /\ IF exc[t] = "" THEN Observe(t, ExitLabel) ELSE UNCHANGED <<labels, drift>>
       /\ UNCHANGED <<log, swept>>

\* An exception in flight leaves a for block, a callable or a waiting call,
\* or reaches the top of the thread.
Unwind(t) ==
    /\ exc[t] # ""
    /\ frames[t] = <<>> \/ Top(t).kind # "with"
    /\ frames' = IF frames[t] = <<>> THEN frames ELSE Pop(t)
    /\ exc' = IF frames[t] = <<>> THEN [exc EXCEPT ![t] = ""] ELSE exc
    /\ UNCHANGED <<running, measurement_thread, is_context_manager, is_paused,
                   is_stopped, loop_shape, loop_indices, action_indices, action_names,
                   data_groups, masked_properties, data_arrays, set_arrays, arrays,
                   dataset, target, broken, last, labels, drift, log, swept, first_value,
                   except_actions, final_actions>>

\* The body of a block raises an exception.
RaiseError(t) ==
    /\ ~Busy(t)
    /\ frames[t] # <<>>
    /\ exc' = [exc EXCEPT ![t] = "UserError"]
    /\ UNCHANGED <<running, measurement_thread, is_context_manager, is_paused,
                   is_stopped, loop_shape, loop_indices, action_indices, action_names,
                   data_groups, masked_properties, data_arrays, set_arrays, arrays,
                   dataset, target, broken, frames, last, labels, drift, log, swept, first_value,
                   except_actions, final_actions>>

BoundName(S) ==
    LET m == S.running IN
    IF m # NoSess /\ S.action_indices[m] \in DOMAIN S.action_names[m]
    THEN S.action_names[m][S.action_indices[m]] ELSE NoName
CurrentAddress(S) == IF S.running = NoSess THEN <<>> ELSE S.action_indices[S.running]
AddressInBounds ==
    IF running = NoSess THEN TRUE
    ELSE IF action_indices[running] = <<>> THEN TRUE
    ELSE Last(action_indices[running]) <= MaxIdx

\* measure after its checks and its pause loop, by thread t
MeasureGo(t, s, mb, name) ==
    \E S \in {IF mb.kind = "callable" THEN CallableBegin(St, mb, name)
                ELSE Dispatch(St, mb, name)} :
    LET n == EffectiveName(mb, name)
        fs == IF Waiting(t) THEN Front(frames[t]) ELSE frames[t]
    IN  /\ Done(t, S)
        /\ frames' = [frames EXCEPT ![t] =
                        IF S.err # "" THEN fs
                        ELSE IF mb.kind = "callable"
                        THEN Append(fs, CallFrame(CurrentAddress(St), n))
                        ELSE Count(fs, 1)]
        /\ last' = Note("measure", t, s, S, n, BoundName(St), CurrentAddress(St))
        /\ ObserveAt(Pos(fs), MeasureLabel(mb, name))
        /\ log' = IF S.err = "" /\ mb.kind \in {"parameter", "raw"} /\ mb.res.kind = "scalar"
                  THEN Put(log, <<CurrentAddress(St), loop_indices[running]>>, mb.res.v)
                  ELSE log
        /\ swept' = swept

\* measure without its pause loop.
MeasureCall_no_pause_loop(t, s, mb, name) ==
    /\ ~Busy(t)
    /\ mb.kind = "callable" => Len(frames[t]) < MaxDepth
    /\ LET e == MeasureEntry(St, s, t) IN
       IF e # ""
       THEN /\ Done(t, Raise(St, e))
            /\ last' = Note("measure", t, s, Raise(St, e), EffectiveName(mb, name),
                            BoundName(St), CurrentAddress(St))
            /\ UNCHANGED <<frames, labels, drift, log, swept>>
       ELSE MeasureGo(t, s, mb, name)

\* s.measure(mb, name) called by thread t
MeasureCall(t, s, mb, name) ==
    /\ ~Busy(t)
    /\ mb.kind = "callable" => Len(frames[t]) < MaxDepth
    /\ LET e == MeasureEntry(St, s, t) IN
       IF e # ""
       THEN /\ Done(t, Raise(St, e))
            /\ last' = Note("measure", t, s, Raise(St, e), EffectiveName(mb, name),
                            BoundName(St), CurrentAddress(St))
            /\ UNCHANGED <<frames, labels, drift, log, swept>>
       ELSE IF is_paused[running]
       THEN /\ frames' = Push(t, WaitFrame(running, name, mb, NoThread))
            /\ last' = Note("measure_wait", t, s, St, EffectiveName(mb, name),
                            BoundName(St), CurrentAddress(St))
            /\ UNCHANGED <<running, measurement_thread, is_context_manager, is_paused,
                           is_stopped, loop_shape, loop_indices, action_indices,
                           action_names, data_groups, masked_properties, data_arrays,
                           set_arrays, arrays, dataset, target, broken, exc, labels, drift, log, swept,
                           first_value,
                   except_actions, final_actions>>
       ELSE MeasureGo(t, s, mb, name)

\* s.measure(mb, name) at an address of at most MaxIdx
Measure(t, s, mb, name) == AddressInBounds /\ MeasureCall(t, s, mb, name)

\* s.measure(mb, name, timestamp=timestamp) called by thread t while the
\* measurement is not paused, mb no callable; pre and post are the seconds
\* since the start that datetime.now() gives before and after.
MeasureTimestamp(t, s, mb, name, timestamp, pre, post) ==
    /\ ~Busy(t)
    /\ AddressInBounds
    /\ mb.kind # "callable"
    /\ running # NoSess => ~is_paused[running]
    /\ pre <= post
    /\ LET e == MeasureEntry(St, s, t)
           S == IF e # "" THEN Raise(St, e)
                ELSE MeasureWith(St, s, mb, name, timestamp, pre, post)
           A == CurrentAddress(St)
           at == IF timestamp /\ s = running THEN [A EXCEPT ![Len(A)] = @ + 2] ELSE A
       IN  /\ Done(t, S)
           /\ frames' = [frames EXCEPT ![t] = IF S.err # "" THEN @ ELSE Count(@, 1)]
           /\ last' = [Note("measure", t, s, S, EffectiveName(mb, name), BoundName(St),
                            CurrentAddress(St))
                           EXCEPT !.call = <<mb, name, timestamp, pre, post>>]
           /\ log' = IF S.err = "" /\ mb.kind \in {"parameter", "raw"} /\ mb.res.kind = "scalar"
                     THEN Put(log, <<at, loop_indices[running]>>, mb.res.v)
                     ELSE log
           /\ UNCHANGED <<labels, drift, swept>>

\* The pause loop of a measure call ends: `while self.is_paused` is false.
MeasureResume(t) ==
    /\ exc[t] = ""
    /\ frames[t] # <<>>
    /\ Top(t).kind = "wait"
    /\ Top(t).owner = NoThread
    /\ running = Top(t).sess
    /\ ~is_paused[Top(t).sess]
    /\ MeasureGo(t, Top(t).sess, Top(t).mb, Top(t).name)

\* The callable being measured returns `returned`.
CallableReturn(t, returned) ==
    /\ exc[t] = ""
    /\ InCall(t)
    /\ running # NoSess
    /\ \E S \in {CallableEnd(St, Top(t).ai, Top(t).name, returned)} :
       /\ Done(t, S)
       /\ frames' = [frames EXCEPT ![t] =
                        IF S.err # "" THEN @ ELSE Count(Front(@), 1)]
       /\ last' = [Note("call_end", t, NoSess, S, Top(t).name, NoName, Top(t).ai)
                       EXCEPT !.call = <<returned.kind>>]
       /\ UNCHANGED <<labels, drift, log, swept>>

\* `for v in Sweep(sequence, ...)`: the Sweep is constructed and iter() called.
SweepStart(t, sequence, name, reverse, restore, is_param) ==
    /\ ~Busy(t)
    /\ Len(frames[t]) < MaxDepth
    /\ AddressInBounds
    /\ LET r1 == Sweep__init__(St, sequence, name, reverse, restore, is_param)
           r2 == IF r1.S.err # "" THEN r1 ELSE Sweep__iter__(r1.S, r1.sw, t)
       IN
       /\ Done(t, r2.S)
       /\ frames' = IF r2.S.err = "" THEN Push(t, ForFrame(r2.sw) @@ [pre |-> Geometry(St)])
                    ELSE frames
       /\ last' = Note("sweep_start", t, NoSess, r2.S, name, NoName, CurrentAddress(St))
       /\ IF r2.S.err = "" THEN Observe(t, ForLabel(sequence)) ELSE UNCHANGED <<labels, drift>>
       /\ swept' = IF r2.S.err = "" THEN Put(swept, CurrentAddress(St), sequence) ELSE swept
       /\ log' = log

\* __next__ of the sweep that thread u iterates, after the pause loop.
NextGo(t, u) ==
    LET fs == [frames EXCEPT ![t] = IF Waiting(t) THEN Front(@) ELSE @]
        k == Len(fs[u])
        r == Sweep__next__(St, fs[u][k].sw)
    IN  /\ Done(t, r.S)
        /\ frames' = IF r.done
                     THEN [fs EXCEPT ![u] = Count(Front(@), 1)]
                     ELSE [fs EXCEPT ![u][k].sw = r.sw, ![u][k].n = 0]
        /\ last' = Note(IF r.done THEN "next_done" ELSE "next", t, NoSess, r.S,
                        NoName, NoName, CurrentAddress(St))
        /\ IF r.S.err = "" /\ fs[u][k].sw.pos > 0 THEN ObserveAt(Pos(fs[u]), NextLabel)
           ELSE UNCHANGED <<labels, drift>>
        /\ UNCHANGED <<log, swept>>

\* Thread t calls __next__ on the sweep at the top of thread u's blocks
\* (u = t: the for statement of t asks for its next value).
SweepNext(t, u) ==
    /\ ~Blocked(t)
    /\ t = u \/ ~AtLoopHead(t)
    /\ Top(u).kind = "for"
    /\ LET e == NextEntry(St) IN
       IF e # ""
       THEN /\ Done(t, Raise(St, e))
            /\ last' = Note("next", t, NoSess, Raise(St, e), NoName, NoName,
                            CurrentAddress(St))
            /\ UNCHANGED <<frames, labels, drift, log, swept>>
       ELSE IF is_paused[running]
       THEN /\ frames' = Push(t, WaitFrame(running, NoName, Other, u))
            /\ last' = Note("next_wait", t, NoSess, St, NoName, NoName, CurrentAddress(St))
            /\ UNCHANGED <<running, measurement_thread, is_context_manager, is_paused,
                           is_stopped, loop_shape, loop_indices, action_indices,
                           action_names, data_groups, masked_properties, data_arrays,
                           set_arrays, arrays, dataset, target, broken, exc, labels, drift, log, swept,
                           first_value,
                   except_actions, final_actions>>
       ELSE NextGo(t, u)

\* The pause loop of a __next__ call ends.
NextResume(t) ==
    /\ exc[t] = ""
    /\ frames[t] # <<>>
    /\ Top(t).kind = "wait"
    /\ Top(t).owner # NoThread
    /\ running = Top(t).sess
    /\ ~is_paused[Top(t).sess]
    /\ NextGo(t, Top(t).owner)

\* What a call that touches no block of the thread leaves alone.
ControlCall(t, S, op, s, call) ==
    /\ Commit(S)
    /\ exc' = IF S.err # "" THEN [exc EXCEPT ![t] = S.err] ELSE exc
    /\ last' = [Note(op, t, s, S, NoName, NoName, CurrentAddress(St)) EXCEPT !.call = call]
    /\ UNCHANGED <<frames, labels, drift, log, swept>>
Control(t, S, op, s) == ControlCall(t, S, op, s, <<>>)

\* stop() that sets is_stopped and leaves is_paused as it is.
Stop_no_resume(t) ==
    /\ running # NoSess
    /\ ~is_stopped[running]
    /\ Control(t, [St EXCEPT !.is_stopped[running] = TRUE], "stop", running)

\* stop(), pause() and resume(), from any thread, act on the running measurement.
Stop(t) ==
    /\ running # NoSess
    /\ ~is_stopped[running]
    /\ Control(t, [St EXCEPT !.is_stopped[running] = TRUE, !.is_paused[running] = FALSE],
               "stop", running)

Pause(t) ==
    /\ running # NoSess
    /\ ~is_paused[running]
    /\ Control(t, [St EXCEPT !.is_paused[running] = TRUE], "pause", running)

Resume(t) ==
    /\ running # NoSess
    /\ is_paused[running]
    /\ Control(t, [St EXCEPT !.is_paused[running] = FALSE], "resume", running)

\* The number of mask records on all Measurements.
RECURSIVE SumLen(_, _)
SumLen(mp, s) == IF s = 0 THEN 0 ELSE Len(mp[s]) + SumLen(mp, s - 1)
TotalMasks == SumLen(masked_properties, NSess)

\* s.mask(obj, val, **kwargs), s.unmask(obj, attr, key), s.unmask_all()
MaskWithin(t, s, obj, val, kwargs, n) ==
    /\ ~Busy(t)
    /\ TotalMasks + (IF kwargs = <<>> THEN 1 ELSE Len(kwargs)) <= n
    /\ ControlCall(t, mask(St, s, obj, val, kwargs), "mask", s, <<obj, val, kwargs>>)
Mask(t, s, obj, val, kwargs) == MaskWithin(t, s, obj, val, kwargs, MaxMasks)

Unmask(t, s, obj, attr, key) ==
    /\ ~Busy(t)
    /\ ControlCall(t, unmask(St, s, obj, attr, key), "unmask", s, <<obj, attr, key>>)

UnmaskAll(t, s) ==
    /\ ~Busy(t)
    /\ Control(t, unmask_all(St, s), "unmask_all", s)

\* s.get_arrays(A) called by thread t; the call records the address asked for.
GetArrays(t, s, A) ==
    /\ ~Busy(t)
    /\ ControlCall(t, get_arrays(St, s, A), "get_arrays", s,
                   <<IF A = NoneT THEN action_indices[s] ELSE A>>)

\* skip(N) and revert(N)
Skip(t, N) ==
    /\ ~Busy(t)
    /\ AddressInBounds
    /\ LET S == skip(St, N) IN
       /\ Done(t, S)
       /\ last' = Note("skip", t, NoSess, S, NoName, NoName, CurrentAddress(St))
       /\ frames' = [frames EXCEPT ![t] = IF S.err = "" THEN Count(@, N) ELSE @]
       /\ UNCHANGED <<labels, drift, log, swept>>

Revert(t, N) ==
    /\ ~Busy(t)
    /\ Control(t, revert(St, N), "revert", NoSess)

\* The program registers an action: owner.except_actions.append(f) or
\* owner.final_actions.append(f), owner a Measurement or the class.
Register(t, owner, kind, raises) ==
    /\ ~Busy(t)
    /\ Len(except_actions[owner]) + Len(final_actions[owner]) < MaxActions
    /\ Control(t, IF kind = "except"
                  THEN [St EXCEPT !.except_actions[owner] = Append(@, Action(raises))]
                  ELSE [St EXCEPT !.final_actions[owner] = Append(@, Action(raises))],
               "register", owner)

\* The program writes a target itself.
UserSet(t, tg, v) ==
    /\ ~Busy(t)
    /\ target[tg] # v
    /\ target' = [target EXCEPT ![tg] = v]
    /\ last' = [last EXCEPT !.user = TRUE]
    /\ UNCHANGED <<running, measurement_thread, is_context_manager, is_paused,
                   is_stopped, loop_shape, loop_indices, action_indices, action_names,
                   data_groups, masked_properties, data_arrays, set_arrays, arrays,
                   dataset, broken, frames, exc, labels, drift, log, swept, first_value,
                   except_actions, final_actions>>

\* A device fault: the setter of target tg starts or stops raising.
BreakTarget(tg) ==
    /\ broken' = IF tg \in broken THEN broken \ {tg} ELSE broken \cup {tg}
    /\ UNCHANGED <<running, measurement_thread, is_context_manager, is_paused,
                   is_stopped, loop_shape, loop_indices, action_indices, action_names,
                   data_groups, masked_properties, data_arrays, set_arrays, arrays,
                   dataset, target, frames, exc, last, labels, drift, log, swept, first_value,
                   except_actions, final_actions>>

(* --------------------------- specifications --------------------------- *)
\* A Measurement object that was never entered.
Fresh(s) == ~is_context_manager[s] /\ loop_shape[s] = NoneT
\* The program constructs its Measurement objects in order.
NextFresh(s) == Fresh(s) /\ \A s2 \in Sessions : s2 < s => ~Fresh(s2)
IsOpen(t, s) == \E i \in 1..Len(frames[t]) : frames[t][i].kind = "with" /\ frames[t][i].sess = s

\* mask calls <<obj, val, kwargs>>, one target of each kind
MaskCalls ==
    {<<"P", v, <<>>>> : v \in Values}
        \cup {<<"N", 0, <<<<"a", v>>>>>> : v \in Values}
        \cup {<<"D1", 0, <<<<"k", v>>>>>> : v \in Values}
\* The target a call of MaskCalls masks, and the value it sets.
MaskedTarget(c) == IF c[3] = <<>> THEN <<c[1], "value">> ELSE <<c[1], c[3][1][1]>>
MaskedValue(c) == IF c[3] = <<>> THEN c[2] ELSE c[3][1][2]
\* unmask calls <<obj, attr, key>>
UnmaskCalls ==
    {<<"P", NoSel, NoSel>>, <<"N", "a", NoSel>>, <<"D1", NoSel, "k">>, <<"N", NoSel, NoSel>>}

\* Masking: one thread runs nested measurements, masks targets to new
\* values and unmasks them; the body may raise.
NextMask ==
    \/ \E s \in 1..2 : NextFresh(s) /\ Enter(1, s)
    \/ Exit(1)
    \/ Unwind(1)
    \/ RaiseError(1)
    \/ \E s \in Sessions, c \in MaskCalls :
          IsOpen(1, s) /\ MaskedValue(c) # target[MaskedTarget(c)] /\ Mask(1, s, c[1], c[2], c[3])
    \/ \E s \in Sessions, c \in UnmaskCalls : IsOpen(1, s) /\ Unmask(1, s, c[1], c[2], c[3])
    \/ \E s \in Sessions : IsOpen(1, s) /\ UnmaskAll(1, s)

SpecMask == Init /\ [][NextMask]_vars

\* Unmasking everything: the program masks, calls unmask_all, and may write
\* a target itself after an unmask_all.
NextUnmask ==
    \/ NextFresh(1) /\ Enter(1, 1)
    \/ Exit(1)
    \/ \E s \in Sessions, c \in MaskCalls :
          IsOpen(1, s) /\ MaskedValue(c) # target[MaskedTarget(c)] /\ Mask(1, s, c[1], c[2], c[3])
    \/ \E s \in Sessions : IsOpen(1, s) /\ UnmaskAll(1, s)
    \/ \E tg \in {PValue, <<"N", "a">>, <<"D1", "k">>}, v \in Values :
          last.op = "unmask_all" /\ ~last.user /\ UserSet(1, tg, v)

SpecUnmask == Init /\ [][NextUnmask]_vars
\* Measuring: one thread runs nested measurements and sweeps and measures
\* Parameters whose results are a scalar, an array and a list.
MeasureCalls ==
    {<<Parameter("a", Scalar(1)), NoName>>,
     <<Parameter("a", NdArray(<<2>>, 1)), NoName>>,
     <<Parameter("b", List(<<1, 2>>)), NoName>>}

Next ==
    \/ \E s \in 1..2 : NextFresh(s) /\ Follows(1, WithLabel) /\ Enter(1, s)
    \/ (exc[1] # "" \/ Follows(1, ExitLabel)) /\ Exit(1)
    \/ Unwind(1)
    \/ Follows(1, ForLabel(Range(MaxLen)))
          /\ SweepStart(1, Range(MaxLen), NoName, FALSE, FALSE, FALSE)
    \/ (AtLoopHead(1) \/ Follows(1, NextLabel)) /\ SweepNext(1, 1)
    \/ \E s \in Sessions, c \in MeasureCalls :
          IsOpen(1, s) /\ Follows(1, MeasureLabel(c[1], c[2])) /\ Measure(1, s, c[1], c[2])

Spec == Init /\ [][Next]_vars

\* Naming: one thread runs a measurement with sweeps and measures a
\* Parameter, a MultiParameter, a callable (which returns a dict), a dict
\* and a raw value under the names "a" and "b".
OneItem == <<<<"b", Raw(Scalar(1))>>>>
NamedCalls ==
    {<<Parameter("a", Scalar(1)), NoName>>,
     <<MultiParameter("a", OneItem), NoName>>,
     <<Callable("b"), NoName>>,
     <<Dict(OneItem), "b">>}
        \cup {<<Raw(Scalar(1)), n>> : n \in Names}

\* Thread t is at a new statement or at a measure call: the call made
\* there may differ from visit to visit (a conditional in the loop body).
AtMeasure(t) ==
    LET p == Pos(IF Waiting(t) THEN Front(frames[t]) ELSE frames[t])
    IN  IF p \in DOMAIN labels THEN labels[p].tag = "measure"
        ELSE Cardinality(DOMAIN labels) < MaxStmts

NextNames ==
    \/ NextFresh(1) /\ Enter(1, 1)
    \/ (exc[1] # "" \/ Follows(1, ExitLabel)) /\ Exit(1)
    \/ Unwind(1)
    \/ Follows(1, ForLabel(Range(MaxLen)))
          /\ SweepStart(1, Range(MaxLen), NoName, FALSE, FALSE, FALSE)
    \/ (AtLoopHead(1) \/ Follows(1, NextLabel)) /\ SweepNext(1, 1)
    \/ \E c \in NamedCalls :
          IsOpen(1, 1) /\ ~InCall(1) /\ AtMeasure(1) /\ Measure(1, 1, c[1], c[2])
    \/ CallableReturn(1, Dict(OneItem))

SpecNames == Init /\ [][NextNames]_vars

\* A nest of sweeps: the with block holds one sweep, the body of a sweep
\* holds either one inner sweep or one measure call of a scalar under the
\* name "a"; the value measured varies from step to step.
NestSeqs == {Range(n) : n \in 1..(MaxLen + 1)} \cup {Shifted(n) : n \in 1..(MaxLen + 1)}

NextNest ==
    \/ NextFresh(1) /\ Enter(1, 1)
    \/ Top(1).n = 1 /\ Exit(1)
    \/ \E seq \in NestSeqs :
          Top(1).n = 0 /\ Follows(1, ForLabel(seq))
            /\ SweepStart(1, seq, NoName, FALSE, FALSE, FALSE)
    \/ (AtLoopHead(1) \/ Top(1).n = 1) /\ SweepNext(1, 1)
    \/ \E v \in Values :
          Top(1).kind = "for" /\ Top(1).n = 0 /\ AtMeasure(1)
            /\ Measure(1, 1, Raw(Scalar(v)), "a")

SpecNest == Init /\ [][NextNest]_vars

\* Two threads.  Thread 1 runs
\*     with Measurement() as m1:
\*         for v in Sweep(range(MaxLen)):
\*             m1.measure(a)
\*             m1.measure(a)
\* and while a measurement runs, thread 2 enters Measurement objects (the
\* running one or a new one), calls measure, constructs a Sweep and calls
\* next() on the sweep of thread 1.
ParamA == Parameter("a", Scalar(1))
FirstIn(t, kind) == Top(t).kind = kind /\ Top(t).n = 0
NextThread ==
    \/ NextFresh(1) /\ Follows(1, WithLabel) /\ Enter(1, 1)
    \/ (exc[1] # "" \/ Follows(1, ExitLabel)) /\ Exit(1)
    \/ \E t \in Threads : Unwind(t)
    \/ FirstIn(1, "with") /\ Follows(1, ForLabel(Range(MaxLen)))
          /\ SweepStart(1, Range(MaxLen), NoName, FALSE, FALSE, FALSE)
    \/ (AtLoopHead(1) \/ Follows(1, NextLabel)) /\ SweepNext(1, 1)
    \/ \E c \in {ParamA} :
          Top(1).kind = "for" /\ Follows(1, MeasureLabel(c, NoName)) /\ Measure(1, 1, c, NoName)
    \/ \E s \in 1..2 : running # NoSess /\ Enter(2, s)
    \/ \E c \in {ParamA} : running # NoSess /\ Measure(2, 1, c, NoName)
    \/ running # NoSess /\ SweepStart(2, Range(MaxLen), NoName, FALSE, FALSE, FALSE)
    \/ running # NoSess /\ SweepNext(2, 1)

SpecThread == Init /\ [][NextThread]_vars

\* Stopping: thread 1 runs a measurement with at most one nested one, masks
\* Parameter P, sweeps P (restore=True) or a plain sequence and measures
\* Parameter a inside the sweeps; thread 2 calls stop() while the body of a
\* sweep iteration executes.  P is written only while a mask record of it
\* exists.
SweepKinds == {<<TRUE, TRUE>>, <<FALSE, FALSE>>}    \* <<is_param, restore>>
NextStop ==
    \/ \E s \in 1..2 : NextFresh(s) /\ Follows(1, WithLabel) /\ Enter(1, s)
    \/ (exc[1] # "" \/ Follows(1, ExitLabel)) /\ Exit(1)
    \/ Unwind(1)
    \/ \E s \in Sessions, v \in Values :
          IsOpen(1, s) /\ Top(1).kind = "with" /\ v # target[PValue] /\ Mask(1, s, "P", v, <<>>)
    \/ \E k \in SweepKinds :
          /\ Top(1).kind = "with"
          /\ Follows(1, ForLabel(Range(MaxLen)))
          /\ SweepStart(1, Range(MaxLen), NoName, FALSE, k[2], k[1])
    \/ (AtLoopHead(1) \/ Follows(1, NextLabel)) /\ SweepNext(1, 1)
    \/ \E c \in {ParamA} :
          Top(1).kind = "for" /\ Follows(1, MeasureLabel(c, NoName)) /\ Measure(1, running, c, NoName)
    \/ Top(1).kind = "for" /\ Top(1).sw.pos > 0 /\ Stop(2)

SpecStop == Init /\ [][NextStop]_vars

\* Leaving: thread 1 runs one measurement, registers actions with it and
\* with the class, masks Parameter P, and leaves the block normally or with
\* an exception.
ActionKinds == {"except", "final"}
NextExit ==
    \/ NextFresh(1) /\ Enter(1, 1)
    \/ \E o \in {Class, 1}, k \in ActionKinds, r \in BOOLEAN :
          IsOpen(1, 1) /\ masked_properties[1] = <<>> /\ Register(1, o, k, r)
    \/ \E v \in Values : IsOpen(1, 1) /\ v # target[PValue] /\ Mask(1, 1, "P", v, <<>>)
    \/ RaiseError(1)
    \/ Exit(1)
    \/ Unwind(1)

SpecExit == Init /\ [][NextExit]_vars

\* Many arrays: thread 1 measures Parameter a again and again outside any
\* sweep, each call at the next address, until a call fails or the block is
\* left.
NextMany ==
    \/ NextFresh(1) /\ Enter(1, 1)
    \/ IsOpen(1, 1) /\ MeasureCall(1, 1, ParamA, NoName)
    \/ Exit(1)
    \/ Unwind(1)

SpecMany == Init /\ [][NextMany]_vars

\* Faults: thread 1 masks Parameter P and the attribute a of the Parameter
\* object, the setter of either starts or stops raising, and the program
\* calls unmask(P), unmask(P, attr='a') and unmask_all, or leaves the block.
FaultTargets == {PValue, <<"P", "a">>}
NextBreak ==
    \/ NextFresh(1) /\ Enter(1, 1)
    \/ Exit(1)
    \/ Unwind(1)
    \/ \E c \in {<<"P", v, <<>>>> : v \in Values} \cup {<<"P", 0, <<<<"a", v>>>>>> : v \in Values} :
          IsOpen(1, 1) /\ MaskedValue(c) # target[MaskedTarget(c)] /\ Mask(1, 1, c[1], c[2], c[3])
    \/ \E tg \in FaultTargets : IsOpen(1, 1) /\ BreakTarget(tg)
    \/ \E c \in {<<"P", NoSel, NoSel>>, <<"P", "a", NoSel>>} :
          IsOpen(1, 1) /\ Unmask(1, 1, c[1], c[2], c[3])
    \/ IsOpen(1, 1) /\ UnmaskAll(1, 1)

SpecBreak == Init /\ [][NextBreak]_vars

\* Order of restoration: thread 1 pushes up to MaxStack mask records on one
\* Measurement, several of them on the same target, and calls unmask and
\* unmask_all.
NextOrder ==
    \/ NextFresh(1) /\ Enter(1, 1)
    \/ Exit(1)
    \/ \E c \in MaskCalls :
          /\ IsOpen(1, 1) /\ MaskedValue(c) # target[MaskedTarget(c)]
          /\ MaskWithin(1, 1, c[1], c[2], c[3], MaxStack)
    \/ \E c \in UnmaskCalls : IsOpen(1, 1) /\ Unmask(1, 1, c[1], c[2], c[3])
    \/ IsOpen(1, 1) /\ UnmaskAll(1, 1)

SpecOrder == Init /\ [][NextOrder]_vars

\* Entering again: thread 1 enters Measurement objects 1 and 2, measures
\* Parameter a, leaves, and enters an object it has used before.
NextReenter ==
    \/ \E s \in 1..2 :
          ~IsOpen(1, s) /\ AddressInBounds /\ Follows(1, WithLabel) /\ Enter(1, s)
    \/ Follows(1, ExitLabel) /\ Exit(1)
    \/ \E s \in 1..2 :
          IsOpen(1, s) /\ Follows(1, MeasureLabel(ParamA, NoName))
              /\ Measure(1, s, ParamA, NoName)

SpecReenter == Init /\ [][NextReenter]_vars

\* Rejected values: thread 1 runs a measurement with sweeps and measures
\* Parameter a, the raw value 1 under the name "b" and without a name, and
\* an object of no supported kind.
RejectCalls ==
    {<<ParamA, NoName>>, <<Raw(Scalar(1)), "b">>, <<Raw(Scalar(1)), NoName>>,
     <<Other, NoName>>, <<Other, "b">>}
NextReject ==
    \/ NextFresh(1) /\ Follows(1, WithLabel) /\ Enter(1, 1)
    \/ (exc[1] # "" \/ Follows(1, ExitLabel)) /\ Exit(1)
    \/ Unwind(1)
    \/ Follows(1, ForLabel(Range(MaxLen)))
          /\ SweepStart(1, Range(MaxLen), NoName, FALSE, FALSE, FALSE)
    \/ (AtLoopHead(1) \/ Follows(1, NextLabel)) /\ SweepNext(1, 1)
    \/ \E c \in RejectCalls :
          IsOpen(1, 1) /\ Follows(1, MeasureLabel(c[1], c[2])) /\ Measure(1, 1, c[1], c[2])

SpecReject == Init /\ [][NextReject]_vars

\* Looking arrays up: thread 1 runs a measurement with a nested one,
\* measures Parameter a in both, and asks for the arrays at an address.
Addresses == {NoneT, <<>>, <<0>>, <<1>>, <<1, 0>>}
NextArrays ==
    \/ \E s \in 1..2 : NextFresh(s) /\ Follows(1, WithLabel) /\ Enter(1, s)
    \/ Follows(1, ExitLabel) /\ Exit(1)
    \/ \E s \in 1..2 :
          IsOpen(1, s) /\ Follows(1, MeasureLabel(ParamA, NoName))
              /\ Measure(1, s, ParamA, NoName)
    \/ \E s \in 1..2, A \in Addresses : IsOpen(1, s) /\ GetArrays(1, s, A)

SpecArrays == Init /\ [][NextArrays]_vars

\* Pausing: thread 1 runs
\*     with Measurement() as m1:
\*         for v in Sweep(range(MaxLen)):
\*             m1.measure(a)
\* and thread 2 calls pause(), resume() and stop() while it runs; a measure
\* call or a sweep step that finds the measurement paused waits in its loop.
NextPause ==
    \/ NextFresh(1) /\ Follows(1, WithLabel) /\ Enter(1, 1)
    \/ (exc[1] # "" \/ Follows(1, ExitLabel)) /\ Exit(1)
    \/ Unwind(1)
    \/ FirstIn(1, "with") /\ Follows(1, ForLabel(Range(MaxLen)))
          /\ SweepStart(1, Range(MaxLen), NoName, FALSE, FALSE, FALSE)
    \/ (AtLoopHead(1) \/ Follows(1, NextLabel)) /\ SweepNext(1, 1)
    \/ Top(1).kind = "for" /\ Follows(1, MeasureLabel(ParamA, NoName))
          /\ Measure(1, 1, ParamA, NoName)
    \/ MeasureResume(1)
    \/ NextResume(1)
    \/ Pause(2)
    \/ Resume(2)
    \/ Stop(2)

SpecPause == Init /\ [][NextPause]_vars

\* A race: threads 1 and 2 each enter a Measurement of their own that was
\* never entered, and the statements of the two __enter__ calls interleave.
NextRace ==
    \/ \E t \in Threads : Fresh(t) /\ EnterBegin(t, t)
    \/ \E t \in Threads : EnterTest(t)
    \/ \E t \in Threads : EnterRegister(t)
    \/ \E t \in Threads : EnterBind(t)
    \/ \E t \in Threads : EnterOpen(t)
    \/ \E t \in Threads : EnterInitialize(t)
    \/ \E t \in Threads : EnterElse(t)
    \/ \E t \in Threads : Unwind(t)

SpecRace == Init /\ [][NextRace]_vars

\* Sweeping: thread 1 runs a measurement with nested sweeps over sequences
\* of 0, 1 and 2 values, forward and in reverse, and measures Parameter a.
SweepSeqs == {Range(n) : n \in 0..MaxLen}
NextSweep ==
    \/ NextFresh(1) /\ Follows(1, WithLabel) /\ Enter(1, 1)
    \/ Follows(1, ExitLabel) /\ Exit(1)
    \/ \E seq \in SweepSeqs, reverse \in BOOLEAN :
          Follows(1, ForLabel(seq)) /\ SweepStart(1, seq, NoName, reverse, FALSE, FALSE)
    \/ (AtLoopHead(1) \/ Follows(1, NextLabel)) /\ SweepNext(1, 1)
    \/ IsOpen(1, 1) /\ Follows(1, MeasureLabel(ParamA, NoName))
          /\ Measure(1, 1, ParamA, NoName)

SpecSweep == Init /\ [][NextSweep]_vars

\* Kinds of measurables: thread 1 runs a measurement with a sweep and a
\* nested measurement and measures, on either Measurement, a Parameter, a
\* MultiParameter, a callable, a dict and a raw value.  A with block may
\* begin with a sweep; the callable either returns a dict or runs one
\* nested measurement of its own.
KindCalls ==
    {<<ParamA, NoName>>,
     <<MultiParameter("a", OneItem), NoName>>,
     <<Callable("b"), NoName>>,
     <<Dict(OneItem), "b">>,
     <<Raw(Scalar(1)), "a">>}
CallUntouched(t) == InCall(t) /\ Top(t).ai = action_indices[running]
NextKinds ==
    \/ \E s \in 1..2 :
          /\ NextFresh(s)
          /\ IF InCall(1) THEN CallUntouched(1) ELSE Follows(1, WithLabel)
          /\ Enter(1, s)
    \/ Follows(1, ExitLabel) /\ Exit(1)
    \/ FirstIn(1, "with") /\ Follows(1, ForLabel(Range(MaxLen)))
          /\ SweepStart(1, Range(MaxLen), NoName, FALSE, FALSE, FALSE)
    \/ (AtLoopHead(1) \/ Follows(1, NextLabel)) /\ SweepNext(1, 1)
    \/ \E s \in Sessions, c \in KindCalls :
          IsOpen(1, s) /\ ~InCall(1) /\ Follows(1, MeasureLabel(c[1], c[2]))
            /\ Measure(1, s, c[1], c[2])
    \/ \E returned \in {Dict(OneItem), Other} :
          /\ InCall(1)
          /\ returned.kind = "dict" \/ ~CallUntouched(1)
          /\ CallableReturn(1, returned)

SpecKinds == Init /\ [][NextKinds]_vars

\* Diverging bodies: thread 1 runs a measurement with one sweep whose body
\* holds measure calls that may differ from one iteration to the next, in
\* their own name or in the names of the items of a MultiParameter, of a
\* dict or of the dict a callable returns.
Item(n) == <<<<n, Raw(Scalar(1))>>>>
MismatchCalls ==
    {<<Parameter(n, Scalar(1)), NoName>> : n \in Names}
        \cup {<<MultiParameter("a", Item(n)), NoName>> : n \in Names}
        \cup {<<Dict(Item(n)), "b">> : n \in Names}
        \cup {<<Callable("b"), NoName>>, <<Raw(Scalar(1)), "a">>}
NextMismatch ==
    \/ NextFresh(1) /\ Enter(1, 1)
    \/ (exc[1] # "" \/ Follows(1, ExitLabel)) /\ Exit(1)
    \/ Unwind(1)
    \/ FirstIn(1, "with") /\ Follows(1, ForLabel(Range(MaxLen)))
          /\ SweepStart(1, Range(MaxLen), NoName, FALSE, FALSE, FALSE)
    \/ (AtLoopHead(1) \/ Follows(1, NextLabel)) /\ SweepNext(1, 1)
    \/ \E c \in MismatchCalls :
          Top(1).kind = "for" /\ AtMeasure(1) /\ Measure(1, 1, c[1], c[2])
    \/ \E n \in Names : CallableReturn(1, Dict(Item(n)))

SpecMismatch == Init /\ [][NextMismatch]_vars

\* A branching body: thread 1 runs
\*     with Measurement() as m1:
\*         for v in Sweep(range(MaxLen)):
\*             <one of: m1.measure(a), an inner for loop over a Sweep of one
\*              value, a nested `with Measurement():` block>
\* where the statement of the body is chosen anew in every iteration; an
\* inner block is empty or holds m1.measure(a).
BranchCalls == {ParamA, Parameter("a", NdArray(<<2>>, 1))}
AtBranch == Len(frames[1]) = 2 /\ FirstIn(1, "for")
Inner(kind) == Len(frames[1]) = 3 /\ Top(1).kind = kind
BodyDone(depth) == Len(frames[1]) = depth /\ Top(1).n = 1
NextBranch ==
    \/ NextFresh(1) /\ Enter(1, 1)
    \/ (exc[1] # "" \/ Inner("with") \/ BodyDone(1)) /\ Exit(1)
    \/ Unwind(1)
    \/ FirstIn(1, "with") /\ SweepStart(1, Range(MaxLen), NoName, FALSE, FALSE, FALSE)
    \/ (Inner("for") \/ AtLoopHead(1) \/ BodyDone(2)) /\ SweepNext(1, 1)
    \/ \E mb \in BranchCalls : AtBranch /\ Measure(1, 1, mb, NoName)
    \/ AtBranch /\ SweepStart(1, Range(1), NoName, FALSE, FALSE, FALSE)
    \/ \E s \in 2..NSess : AtBranch /\ NextFresh(s) /\ Enter(1, s)
    \/ Len(frames[1]) = 3 /\ Top(1).n = 0 /\ Measure(1, 1, ParamA, NoName)

SpecBranch == Init /\ [][NextBranch]_vars

\* Pausing, with the polling of the pause loops: `while is_paused:
\* sleep(0.1)` reads the flag again and again, so a waiting call that could
\* leave its loop from some moment on does leave it.
SpecPauseFair ==
    SpecPause /\ WF_vars(MeasureResume(1)) /\ WF_vars(NextResume(1))

\* Stopping, with a measurement thread that keeps running: thread 1 goes on
\* with its program whenever it can (its pause loops poll the flag, its
\* statements follow one another), whatever thread 2 does.
Thread1 ==
    \/ (exc[1] # "" \/ Follows(1, ExitLabel)) /\ Exit(1)
    \/ Unwind(1)
    \/ FirstIn(1, "with") /\ Follows(1, ForLabel(Range(MaxLen)))
          /\ SweepStart(1, Range(MaxLen), NoName, FALSE, FALSE, FALSE)
    \/ (AtLoopHead(1) \/ Follows(1, NextLabel)) /\ SweepNext(1, 1)
    \/ Top(1).kind = "for" /\ Follows(1, MeasureLabel(ParamA, NoName))
          /\ Measure(1, 1, ParamA, NoName)
    \/ MeasureResume(1)
    \/ NextResume(1)
SpecStopFair == SpecPause /\ WF_vars(Thread1)

\* Restoring sweeps: thread 1 runs one measurement, may mask Parameter P
\* at the beginning of the block, and then sweeps P with restore=True over
\* one or two values, measuring Parameter a in the loop.
NextRestore ==
    \/ NextFresh(1) /\ Enter(1, 1)
    \/ Follows(1, ExitLabel) /\ Exit(1)
    \/ \E v \in Values :
          FirstIn(1, "with") /\ v # target[PValue] /\ Mask(1, 1, "P", v, <<>>)
    \/ \E n \in 1..MaxLen :
          /\ Top(1).kind = "with"
          /\ Follows(1, ForLabel(Range(n)))
          /\ SweepStart(1, Range(n), NoName, FALSE, TRUE, TRUE)
    \/ (AtLoopHead(1) \/ Follows(1, NextLabel)) /\ SweepNext(1, 1)
    \/ Top(1).kind = "for" /\ Follows(1, MeasureLabel(ParamA, NoName))
          /\ Measure(1, 1, ParamA, NoName)

SpecRestore == Init /\ [][NextRestore]_vars

\* Reverse sweeps: thread 1 sweeps every sequence of at most MaxLen + 1
\* values, forward or in reverse, and measures the loop variable in the body:
\* `for v in Sweep(seq, reverse=r): msmt.measure(v, "a")`.
ReverseSeqs == UNION {[1..n -> Values] : n \in 0..(MaxLen + 1)}
NextReverse ==
    \/ NextFresh(1) /\ Enter(1, 1)
    \/ Top(1).n = 1 /\ Exit(1)
    \/ \E seq \in ReverseSeqs, reverse \in BOOLEAN :
          FirstIn(1, "with") /\ SweepStart(1, seq, NoName, reverse, FALSE, FALSE)
    \/ (AtLoopHead(1) \/ Top(1).n = 1) /\ SweepNext(1, 1)
    \/ /\ FirstIn(1, "for") /\ last.op = "next" /\ last.err = ""
       /\ Measure(1, 1, Raw(Scalar(last.ret[1])), "a")

SpecReverse == Init /\ [][NextReverse]_vars

\* Callables: thread 1 runs a measurement with one sweep and measures a
\* callable, in the block or in the loop.  The program holds a second
\* Measurement object that it enters with an empty block wherever it likes,
\* in the body of the callable too, there as its first statement; the
\* callable returns a dict or a value that is no dict.
NextCallable ==
    \/ NextFresh(1) /\ Enter(1, 1)
    \/ /\ Top(1).kind = "with"
       /\ exc[1] # "" \/ Top(1).sess = 2 \/ Top(1).n >= 1
       /\ Exit(1)
    \/ Unwind(1)
    \/ FirstIn(1, "with") /\ Top(1).sess = 1
          /\ SweepStart(1, Range(MaxLen), NoName, FALSE, FALSE, FALSE)
    \/ (AtLoopHead(1) \/ (Top(1).kind = "for" /\ Top(1).n >= 1)) /\ SweepNext(1, 1)
    \/ /\ running # NoSess /\ ~IsOpen(1, 2)
       /\ IF InCall(1) THEN CallUntouched(1) ELSE Top(1).n <= MaxIdx
       /\ AddressInBounds
       /\ Enter(1, 2)
    \/ /\ running # NoSess /\ ~InCall(1) /\ Top(1).n <= MaxIdx
       /\ Measure(1, 1, Callable("b"), NoName)
    \/ \E returned \in {Dict(OneItem), Other} : CallableReturn(1, returned)

SpecCallable == Init /\ [][NextCallable]_vars

\* Timestamps: thread 1 runs a measurement, with or without a sweep and a
\* nested measurement, whose innermost block holds one measure call, on
\* either Measurement, with or without timestamp, of a Parameter, a
\* MultiParameter, a dict or a raw value.
TimestampCalls ==
    {<<ParamA, NoName>>,
     <<MultiParameter("a", OneItem), NoName>>,
     <<Dict(OneItem), "b">>,
     <<Raw(Scalar(1)), "a">>}
NextTimestamp ==
    \/ \E s \in 1..2 : NextFresh(s) /\ (s = 2 => Top(1).n = 0) /\ Enter(1, s)
    \/ Top(1).n >= 1 /\ Exit(1)
    \/ FirstIn(1, "with") /\ Top(1).sess = 1
          /\ SweepStart(1, Range(MaxLen), NoName, FALSE, FALSE, FALSE)
    \/ (AtLoopHead(1) \/ Top(1).n >= 1) /\ SweepNext(1, 1)
    \/ \E s \in 1..2, c \in TimestampCalls, timestamp \in BOOLEAN, pre, post \in Values :
          /\ IsOpen(1, s) /\ Top(1).n = 0
          /\ ~timestamp => pre = 0 /\ post = 0
          /\ MeasureTimestamp(1, s, c[1], c[2], timestamp, pre, post)

SpecTimestamp == Init /\ [][NextTimestamp]_vars

\* Skipping and reverting: thread 1 runs a measurement, with or without a
\* sweep and a nested measurement, measures raw values under one name and
\* calls skip(N) and revert(N) in between, on either Measurement.
NextRevert ==
    \/ \E s \in 1..2 : NextFresh(s) /\ (s = 2 => FirstIn(1, "with")) /\ Enter(1, s)
    \/ Top(1).n >= 1 /\ Exit(1)
    \/ FirstIn(1, "with") /\ Top(1).sess = 1
          /\ SweepStart(1, Range(MaxLen), NoName, FALSE, FALSE, FALSE)
    \/ (AtLoopHead(1) \/ Top(1).n >= 1) /\ SweepNext(1, 1)
    \/ \E s \in 1..2, v \in Values :
          IsOpen(1, s) /\ Top(1).n <= MaxIdx /\ Measure(1, s, Raw(Scalar(v)), "a")
    \/ \E N \in 1..MaxSkip :
          /\ running # NoSess /\ Top(1).n <= MaxIdx
          /\ Last(action_indices[running]) + N <= MaxIdx + 1
          /\ Skip(1, N)
    \/ \E N \in 1..MaxSkip :
          /\ running # NoSess
          /\ Last(action_indices[running]) - N >= -1
          /\ Revert(1, N)

SpecRevert == Init /\ [][NextRevert]_vars

(* ------------------------------ masking ------------------------------ *)
\* The outermost Measurement has just exited.
OutermostExited ==
    /\ last.op \in {"exit", "exit_exc"}
    /\ running = NoSess
    /\ frames[last.thread] = <<>>


\* C1: after the outermost Measurement has exited (normally or with an
\* exception), every target masked during it holds the value it had before
\* its first mask, and no Measurement has a mask record left.
C1_MasksRevertedAtExit ==
    OutermostExited =>
        /\ \A tg \in Targets : first_value[tg] # -1 => target[tg] = first_value[tg]
        /\ \A s \in Sessions : masked_properties[s] = <<>>

\* unmask(call) names target tg.
CallNames(call, tg) ==
    /\ call[1] = tg[1]
    /\ IF tg[1] \in Dicts THEN call[2] = NoSel /\ call[3] \in {NoSel, tg[2]}
       ELSE IF tg[2] = "value" THEN call[2] = NoSel /\ call[3] = NoSel
       ELSE call[2] \in {NoSel, tg[2]} /\ call[3] = NoSel
\* A mask of one target succeeded / an unmask of that target directly follows.
MaskDone == last.op = "mask" /\ last.err = ""
UnmaskAfterMask ==
    /\ last.op = "unmask" /\ last.err = ""
    /\ last.prior.op = "mask"
    /\ CallNames(last.call, MaskedTarget(last.prior.call))
RECURSIVE OldestOriginal(_, _)
OldestOriginal(stack, tg) ==
    IF stack = <<>> THEN -1
    ELSE IF RecTarget(stack[1]) = tg THEN stack[1].original_value
    ELSE OldestOriginal(Tail(stack), tg)
MaskReturnsAndSets ==
    MaskDone =>
        LET tg == MaskedTarget(last.call) IN
        /\ last.ret = <<last.before[tg]>>
        /\ target[tg] = MaskedValue(last.call)
        /\ Last(masked_properties[last.sess]).original_value = last.before[tg]

\* C2 as stated: mask returns the value before the call and sets the new
\* one; an unmask of the target that directly follows sets the target to
\* exactly the returned value and leaves no record of it on the stack.
C2_UnmaskRestoresReturned ==
    /\ MaskReturnsAndSets
    /\ UnmaskAfterMask =>
        LET tg == MaskedTarget(last.prior.call) IN
        /\ target[tg] = last.prior.ret[1]
        /\ CountRecords(masked_properties[last.sess], tg) = 0

\* C2 amended: mask returns the value before the call and sets the new one;
\* an unmask of the target that directly follows removes every record of
\* the target from that Measurement's stack and sets the target to the
\* original value of the oldest of them, which is the returned value when
\* the stack held no earlier record of the target.
C2_UnmaskRestoresOldest ==
    /\ MaskReturnsAndSets
    /\ UnmaskAfterMask =>
        LET tg == MaskedTarget(last.prior.call) IN
        /\ CountRecords(masked_properties[last.sess], tg) = 0
        /\ target[tg] = OldestOriginal(last.stack, tg)
        /\ CountRecords(last.stack, tg) = 1 => target[tg] = last.prior.ret[1]

\* An unmask directly after the second mask of a target, which put back a
\* value other than the one that mask returned.
C2_Witness ==
    /\ UnmaskAfterMask
    /\ CountRecords(last.stack, MaskedTarget(last.prior.call)) = 2
    /\ target[MaskedTarget(last.prior.call)] # last.prior.ret[1]
    /\ last.writes # <<>>

\* C3: an unmask_all directly after an unmask_all of the same Measurement
\* (the user may have written targets in between) writes to no target,
\* finds and leaves the stack empty, and leaves every target unchanged.
C3_UnmaskAllIdempotent ==
    (last.op = "unmask_all" /\ ~last.user /\ last.prior.op = "unmask_all") =>
        /\ last.err = ""
        /\ last.writes = <<>>
        /\ last.stack = <<>>
        /\ masked_properties[last.sess] = <<>>
        /\ target = last.before

\* A second unmask_all, after a first one that wrote targets back and after
\* the user changed a target in between.
C3_Witness ==
    /\ last.op = "unmask_all" /\ ~last.user /\ last.prior.op = "unmask_all"
    /\ last.prior.wrote /\ last.prior.user
(* ------------------------------ geometry ------------------------------ *)
\* C4: on the outermost (running) Measurement loop_shape and loop_indices
\* have the same length in every state between two operations, so at the
\* start and at the end of every measure call, also after a sweep ended.
C4_ShapeIndicesSameLength ==
    running # NoSess => Len(loop_shape[running]) = Len(loop_indices[running])

\* A measure call completed inside a sweep, right after an inner sweep of
\* the same body was exhausted.
C4_Witness ==
    /\ last.op = "measure" /\ last.err = ""
    /\ running # NoSess
    /\ Len(loop_shape[running]) >= 1
    /\ Last(last.ai) >= 1
    /\ [last.ai EXCEPT ![Len(last.ai)] = @ - 1] \in DOMAIN swept

\* C7: every measured data array has as many set arrays as the sweep
\* dimensions open when it was created plus the axes of its first result.
C7_SetArrayCount ==
    \A id \in 1..Len(arrays) :
        ~arrays[id].is_setpoint =>
            Len(arrays[id].set_arrays) = arrays[id].dims + arrays[id].axes
(* ------------------------------- naming ------------------------------- *)
\* The last operation is a measure call that got past the checks of its
\* first lines (context manager, stop, thread).
MeasureRan ==
    /\ last.op = "measure"
    /\ last.err \notin {"NotContextManager", "Stop", "ConcurrencyViolation", "AttributeError"}
NoRebinding ==
    (running # NoSess /\ running' = running) =>
        \A ai \in DOMAIN action_names[running] :
            /\ ai \in DOMAIN action_names'[running]
            /\ action_names'[running][ai] = action_names[running][ai]

\* C5: an address bound to a name is never bound to another name; a measure
\* call of any kind that arrives under another name at a bound address
\* raises the sequence-mismatch error; and the error is raised only after
\* the program did, at some position, a call of another name than before.
C5_AddressNameStable ==
    /\ [][NoRebinding]_vars
    /\ []((MeasureRan /\ last.bound # NoName /\ last.name # NoName
             /\ last.name # last.bound) => last.err = "SequenceMismatch")
    /\ [](last.err = "SequenceMismatch" => drift)

\* A measure call in a later iteration of a sweep arrived under another
\* name at the address the first iteration bound, and was rejected.
C5_Witness ==
    /\ MeasureRan /\ last.err = "SequenceMismatch"
    /\ last.bound # NoName /\ last.name # last.bound
    /\ running # NoSess
    /\ loop_indices[running] # <<>>
    /\ Last(loop_indices[running]) >= 1
(* -------------------------------- nests -------------------------------- *)
\* The outermost Measurement ended normally and its dataset is finalized.
Finished ==
    /\ last.op = "exit" /\ last.err = ""
    /\ running = NoSess
    /\ dataset.finalized /\ ~dataset.active
\* The address of sweep k of a nest (k = 1 outermost), and of its measure.
NestAddress(k) == [i \in 1..k |-> 0]
NestDepth == Cardinality(DOMAIN swept)
NestShape(k) == [i \in 1..k |-> Len(swept[NestAddress(i)])]

\* C8: a finished nest of d sweeps that measured one scalar per step left
\* exactly d set arrays and one measured array; the measured array has the
\* shape of the extents and holds at every index the value measured at
\* that step; the set array of sweep k has the shape of the first k
\* extents and holds sequence_k[i_k] at every index (i_1, .., i_k).
C8_NestDataset ==
    Finished =>
        LET d == NestDepth
            mid == data_arrays[NestAddress(d + 1)]
        IN
        /\ d >= 1
        /\ Len(arrays) = d + 1
        /\ Cardinality({id \in 1..Len(arrays) : arrays[id].is_setpoint}) = d
        /\ DOMAIN data_arrays = {NestAddress(d + 1)}
        /\ ~arrays[mid].is_setpoint
        /\ arrays[mid].shape = NestShape(d)
        /\ DOMAIN arrays[mid].data = AllIdx(NestShape(d))
        /\ \A idx \in AllIdx(NestShape(d)) :
              arrays[mid].data[idx] = log[<<NestAddress(d + 1), idx>>]
        /\ \A k \in 1..d :
              LET sid == set_arrays[NestAddress(k)] IN
              /\ arrays[sid].is_setpoint
              /\ arrays[sid].shape = NestShape(k)
              /\ DOMAIN arrays[sid].data = AllIdx(NestShape(k))
              /\ \A idx \in AllIdx(NestShape(k)) :
                    arrays[sid].data[idx] = swept[NestAddress(k)][idx[k] + 1]

\* A finished nest of two sweeps of extents 2 and 3 whose outer sequence is
\* not its own index and whose steps measured different values.
C8_Witness ==
    /\ Finished
    /\ NestDepth = 2
    /\ swept[NestAddress(1)] = Shifted(2)
    /\ swept[NestAddress(2)] = Range(3)
    /\ log[<<NestAddress(3), <<0, 0>>>>] # log[<<NestAddress(3), <<1, 2>>>>]
(* ------------------------------- threads ------------------------------ *)
\* The next state follows an operation op' of a thread that is not the
\* measurement thread, while a measurement is running.
ByOtherThread(ops) ==
    /\ running # NoSess
    /\ last'.op \in ops
    /\ last'.thread # measurement_thread
GeometryUnchanged ==
    /\ loop_shape'[running] = loop_shape[running]
    /\ loop_indices'[running] = loop_indices[running]
    /\ action_indices'[running] = action_indices[running]
FailedEnter ==
    ByOtherThread({"enter"}) =>
        /\ last'.err = "ConcurrencyViolation"
        /\ running' = running
        /\ measurement_thread' = measurement_thread
        /\ GeometryUnchanged
        /\ data_groups'[running] = data_groups[running]
        /\ dataset' = dataset /\ arrays' = arrays

\* C9: an enter on another thread than the measurement thread, while a
\* measurement is running, fails with the concurrency violation and leaves
\* the running pointer, the measurement thread, the geometry and address of
\* the running Measurement, its data groups and the dataset unchanged.
C9_FailedEnterChangesNothing == [][FailedEnter]_vars

ForeignCall ==
    ByOtherThread({"measure", "measure_wait", "next", "next_done", "next_wait"}) =>
        /\ last'.err = "ConcurrencyViolation"
        /\ GeometryUnchanged
        /\ arrays' = arrays /\ data_arrays' = data_arrays /\ set_arrays' = set_arrays
        /\ dataset' = dataset

\* C10: while a measurement runs, every measure call and every sweep step
\* of another thread than the measurement thread fails with the concurrency
\* violation and changes neither loop_indices, the address, an array nor
\* the dataset.
C10_ForeignCallsRejected == [][ForeignCall]_vars
(* ------------------------------ stopping ------------------------------ *)
\* The next state follows a sweep step taken while the running measurement
\* is stopped.
StepWhenStopped ==
    /\ running # NoSess
    /\ is_stopped[running]
    /\ last'.op \in {"next", "next_done", "next_wait"}
NoNextValue ==
    StepWhenStopped =>
        /\ last'.err = "Stop"
        /\ loop_indices' = loop_indices
        /\ arrays' = arrays
        /\ target' = target
\* The outermost Measurement, stopped, has exited.
StoppedExited == OutermostExited /\ is_stopped[last.sess]
OnlySetpoints == \A i \in 1..Len(arrays) : arrays[i].is_setpoint
ClosedAfterStop ==
    StoppedExited =>
        /\ \A tg \in Targets : first_value[tg] # -1 => target[tg] = first_value[tg]
        /\ \A s \in Sessions : masked_properties[s] = <<>>
        /\ ~dataset.active
        /\ dataset.finalized <=> ~OnlySetpoints

\* C6: after stop() during the body of a sweep iteration, the next sweep
\* step raises the controlled termination before it updates loop_indices,
\* writes a set array or sets the device; and once the stopped measurement
\* has exited, every mask is reverted and the dataset is inactive, finalized
\* unless it holds setpoint arrays only.
C6_StopEndsCleanly == [][NoNextValue]_vars /\ []ClosedAfterStop
(* ------------------------------- leaving ------------------------------ *)
\* The next state follows __exit__ of the running Measurement.
OutermostExit == running # NoSess /\ running' = NoSess /\ last'.op \in {"exit", "exit_exc"}
Events(ran, label) == {i \in DOMAIN ran : ran[i].label = label}
ActionLabels == {"except", "global except", "final", "global final"}
\* The next state follows __exit__ of the running Measurement, left by an
\* exception of its body.
RaisedExit ==
    /\ running # NoSess /\ last' # last
    /\ last'.op = "exit_exc" /\ last'.sess = running
RunsEveryAction ==
    RaisedExit =>
        /\ Cardinality(Events(last'.ran, "except")) = Len(except_actions[running])
        /\ Cardinality(Events(last'.ran, "global except")) = Len(except_actions[Class])
        /\ Cardinality(Events(last'.ran, "final")) = Len(final_actions[running])
        /\ Cardinality(Events(last'.ran, "global final")) = Len(final_actions[Class])
        /\ ~dataset'.active
        /\ running' = NoSess
        /\ exc[last'.thread] # "" /\ exc'[last'.thread] = exc[last'.thread]

\* C11: when the body of the outermost Measurement raised, __exit__ calls
\* every local and global except action and every local and global final
\* action (one that raises does not stop the ones after it), leaves the
\* dataset inactive and running_measurement None, and the exception of the
\* body goes on to the caller.
C11_ExitRunsEveryAction == [][RunsEveryAction]_vars

\* The body raised, actions of all four lists were called, and one of them
\* raised before another was called.
C11_Witness ==
    /\ OutermostExited /\ last.op = "exit_exc"
    /\ \A l \in ActionLabels : Events(last.ran, l) # {}
    /\ \E i, j \in DOMAIN last.ran :
          i < j /\ last.ran[i].raised /\ last.ran[j].label \in ActionLabels

\* The place of an event in the order of __exit__ ("global except" has none).
Rank(label) ==
    IF label = "except" THEN 1 ELSE IF label = "final" THEN 2
    ELSE IF label = "unmask_all" THEN 3 ELSE IF label = "global final" THEN 4
    ELSE IF label = "close" THEN 5 ELSE 0
Ordered(ran) ==
    \A i, j \in DOMAIN ran :
        (i < j /\ Rank(ran[i].label) # 0 /\ Rank(ran[j].label) # 0)
            => Rank(ran[i].label) <= Rank(ran[j].label)
ExitInOrder ==
    OutermostExit =>
        /\ Ordered(last'.ran)
        /\ Cardinality(Events(last'.ran, "unmask_all")) = 1
        /\ Cardinality(Events(last'.ran, "close")) = 1
        /\ last'.op = "exit" => Events(last'.ran, "except") = {}
        /\ \A i \in Events(last'.ran, "final") :
              /\ last'.ran[i].masks = Len(masked_properties[running])
              /\ last'.ran[i].target = target
        /\ \A i \in Events(last'.ran, "global final") :
              /\ last'.ran[i].masks = 0
              /\ last'.ran[i].target = target'

\* C20: __exit__ of the outermost Measurement calls the local except actions
\* (only with an exception in flight), then the local final actions, then
\* unmask_all, then the global final actions, then closes the dataset; the
\* local final actions see the masks in force, the global final actions see
\* every mask reverted.
C20_ExitOrder == [][ExitInOrder]_vars

\* An exit whose local final action saw a mask in force and a masked value.
C20_Witness ==
    /\ OutermostExited
    /\ \A l \in {"final", "global final", "unmask_all", "close"} : Events(last.ran, l) # {}
    /\ \E i \in Events(last.ran, "final") :
          last.ran[i].masks > 0 /\ last.ran[i].target # target

(* --------------------------- array ceiling ---------------------------- *)
\* The arrays registered in the dataset: measured arrays and set arrays.
TotalArrays == Len(arrays)
\* A measure call has just failed with the too-many-arrays error.
CeilingHit == last'.op = "measure" /\ last'.err = "TooManyArrays"
RejectedRegistersNothing ==
    CeilingHit => /\ arrays' = arrays
                  /\ data_arrays' = data_arrays
                  /\ set_arrays' = set_arrays

\* C12: the dataset never holds more than max_arrays arrays, measured arrays
\* and set arrays (dummy set arrays of unswept measurements included) counted
\* together, and an array creation that would exceed the ceiling fails with
\* the too-many-arrays error and registers nothing.
C12_TotalArraysWithinCeiling ==
    [](TotalArrays <= max_arrays) /\ [][RejectedRegistersNothing]_vars

(* ------------------------ failed write-backs -------------------------- *)
\* An unmask or unmask_all has just been called, and the records it selects.
UnmaskCalled == last'.op \in {"unmask", "unmask_all"} /\ last' # last
SelectedBy(r) ==
    \/ last'.op = "unmask_all"
    \/ Selected([target |-> target], r, last'.call[1], last'.call[2], last'.call[3])
WrittenBack(r) ==
    \E j \in DOMAIN last'.writes : last'.writes[j] = <<RecTarget(r), r.original_value>>
RestorationNotAborted ==
    UnmaskCalled =>
        LET stack == masked_properties[last'.sess] IN
        /\ last'.err = ""
        /\ \A i \in DOMAIN stack :
              SelectedBy(stack[i]) /\ RecTarget(stack[i]) \notin broken
                  => WrittenBack(stack[i])
        /\ masked_properties'[last'.sess] = SelectSeq(stack, LAMBDA r : ~SelectedBy(r))

\* C13: when the write-back of one mask record fails, unmask_all and
\* unmask(target) alike still restore every other selected record, remove
\* all selected records from the stack, and raise nothing to the caller.
C13_RestorationNotAborted == [][RestorationNotAborted]_vars

(* ------------------------ order of restoration ------------------------ *)
\* The write-backs of the records of sel, newest first.
NewestFirst(sel) ==
    [j \in 1..Len(sel) |-> <<RecTarget(sel[Len(sel) + 1 - j]),
                             sel[Len(sel) + 1 - j].original_value>>]
RestoredInReverse ==
    UnmaskCalled /\ last'.err = "" =>
        LET stack == masked_properties[last'.sess]
            sel == SelectSeq(stack, SelectedBy)
        IN  /\ last'.writes = NewestFirst(sel)
            /\ \A i \in DOMAIN sel :
                  target'[RecTarget(sel[i])] = OldestOriginal(sel, RecTarget(sel[i]))
            /\ masked_properties'[last'.sess] = SelectSeq(stack, LAMBDA r : ~SelectedBy(r))

\* C14: unmask_all and unmask(target) write the selected mask records back
\* newest first, so a target masked several times ends at the value it had
\* before its first mask, and the records unmask(target) does not select
\* stay on the stack in the order they were pushed.
C14_RestoredInReverse == [][RestoredInReverse]_vars

\* An unmask wrote a twice-masked target back, newest record first, and
\* left two records of other targets on the stack.
C14_Witness ==
    /\ last.op = "unmask" /\ last.err = ""
    /\ Len(last.writes) = 2
    /\ last.writes[1][1] = last.writes[2][1]
    /\ last.writes[1][2] # last.writes[2][2]
    /\ Len(last.stack) = 4
    /\ Len(masked_properties[last.sess]) = 2
    /\ RecTarget(masked_properties[last.sess][1]) # RecTarget(masked_properties[last.sess][2])

(* --------------------------- closed sessions -------------------------- *)
\* Measurement s was entered as the outermost one and has exited: the
\* dataset it opened is closed and no measurement is running.
Closed(s) == running = NoSess /\ dataset.owner = s /\ ~dataset.active
EnterOf(s) == last'.op = "enter" /\ last'.sess = s /\ last' # last
ClosedStaysClosed ==
    \A s \in Sessions :
        Closed(s) /\ EnterOf(s) =>
            /\ last'.err # ""
            /\ running' = NoSess
            /\ dataset' = dataset /\ arrays' = arrays
            /\ loop_shape'[s] = loop_shape[s]
            /\ loop_indices'[s] = loop_indices[s]
            /\ action_indices'[s] = action_indices[s]

\* C15: a Measurement that was entered as the outermost one and has exited
\* cannot be entered again: the enter fails, and it neither makes the object
\* the running measurement nor opens a new dataset nor resets its geometry.
C15_ClosedStaysClosed == [][ClosedStaysClosed]_vars

(* --------------------------- rejected values -------------------------- *)
\* A measure call has just been rejected for its value.
ValueRejected ==
    /\ last'.op = "measure" /\ last' # last
    /\ last'.err \in {"UnsupportedType", "NoName"}
RejectedChangesNothing ==
    ValueRejected =>
        /\ action_indices' = action_indices
        /\ action_names' = action_names
        /\ loop_shape' = loop_shape /\ loop_indices' = loop_indices
        /\ arrays' = arrays /\ data_arrays' = data_arrays /\ set_arrays' = set_arrays
        /\ dataset' = dataset

ArraysUnder(A) == {data_arrays[k] : k \in {k \in DOMAIN data_arrays : IsPrefix(A, k)}}
ReturnedArrays == {last.ret[i] : i \in DOMAIN last.ret}

\* C17: get_arrays(A) returns exactly the measured arrays whose address has
\* A as a prefix: the array at A and every array of a data group rooted at
\* A, and no array at an address that does not start with A; without an
\* argument A is the current action address.
C17_GetArraysByPrefix ==
    last.op = "get_arrays" /\ last.err = "" => ReturnedArrays = ArraysUnder(last.call[1])

(* ------------------------- stop while paused -------------------------- *)
\* The measurement thread leaves the pause loop of a measure call or of a
\* sweep step after stop() was called.
LeavesPauseLoopStopped ==
    /\ Waiting(1) /\ running # NoSess /\ is_stopped[running]
    /\ frames'[1] # frames[1]
StoppedInPauseLoop ==
    LeavesPauseLoopStopped =>
        /\ exc'[1] = "Stop"
        /\ arrays' = arrays /\ data_arrays' = data_arrays /\ log' = log
        /\ loop_indices' = loop_indices /\ action_indices' = action_indices

\* C18: when stop() is called while the measurement thread waits in the
\* pause loop of a measure call or of a sweep step, that call ends the
\* sequence with the controlled stop; it does not go on to call the device,
\* store a result, write the set array or produce a sweep value.
C18_StoppedInPauseLoop == [][StoppedInPauseLoop]_vars

(* ---------------------------- racing enters --------------------------- *)
\* Thread t took the outermost branch of __enter__.
TookOutermost(t) ==
    \E i \in DOMAIN frames[t] :
        frames[t][i].name \in {"outermost", "registered", "bound", "opened", "entered"}
EntersComplete == \A t \in Threads : Top(t).kind # "enter"
EnteredRunning(t) == Top(t).kind = "with" /\ Top(t).sess = running

\* C19: when two threads enter two Measurements that were never entered,
\* and the test of running_measurement and its assignment are separate
\* steps, at most one of them takes the outermost branch and opens a
\* dataset, and the measurement thread is the thread that entered the
\* running measurement.
C19_OneOutermostEnter ==
    /\ Cardinality({t \in Threads : TookOutermost(t)}) <= 1
    /\ \A t \in Threads :
          EntersComplete /\ EnteredRunning(t) => measurement_thread = t

(* ----------------------- global except actions ------------------------ *)
GlobalExceptAfterRevert ==
    RaisedExit =>
        \A i \in Events(last'.ran, "global except") :
            /\ \A j \in Events(last'.ran, "final") \cup Events(last'.ran, "unmask_all") : j < i
            /\ last'.ran[i].masks = 0

\* C21: when the outermost Measurement exits with an exception in flight,
\* the global except actions are called only after the local final actions
\* were called and the mask stack was reverted.
C21_GlobalExceptAfterRevert == [][GlobalExceptAfterRevert]_vars

(* -------------------------- nested geometry --------------------------- *)
\* Measurement s is open inside the running Measurement.
NestedOpen(s) == running # NoSess /\ s # running /\ \E t \in Threads : IsOpen(t, s)
NestedMirrors ==
    \A s \in Sessions :
        NestedOpen(s) => /\ loop_shape[s] = loop_shape[running]
                         /\ loop_indices[s] = loop_indices[running]
\* The next state follows a successful enter of a nested Measurement.
NestedEntered ==
    /\ running # NoSess /\ last' # last
    /\ last'.op = "enter" /\ last'.err = ""
NestedRegisters ==
    NestedEntered =>
        LET ai == action_indices[running] IN
        /\ ai \in DOMAIN data_groups'[running]
        /\ data_groups'[running][ai] = DataGroup(last'.sess, loop_indices[running])
        /\ action_indices'[running] = ai \o <<0>>

\* C22: while a nested Measurement is open its loop_shape and loop_indices
\* equal those of the outermost Measurement in every state, also after a
\* sweep was started or stepped inside it; and entering it registers it as
\* the data group at the address the outermost Measurement has at that
\* moment and extends that address by one zero component.
C22_NestedMirrorsGeometry == []NestedMirrors /\ [][NestedRegisters]_vars

(* --------------------------- nested masks ----------------------------- *)
\* The next state follows a call `op` on a Measurement nested in the running one.
OnNested(ops) ==
    /\ running # NoSess /\ last' # last
    /\ last'.op \in ops /\ last'.sess # running
MaskOnOutermostStack ==
    /\ OnNested({"mask"}) /\ last'.err = "" =>
          /\ masked_properties'[last'.sess] = masked_properties[last'.sess]
          /\ Len(masked_properties'[running]) > Len(masked_properties[running])
    /\ OnNested({"exit", "exit_exc"}) =>
          /\ target' = target
          /\ masked_properties'[running] = masked_properties[running]

\* C23: a mask pushed by mask() on a nested Measurement is recorded on the
\* stack of the outermost running Measurement; it stays in force when the
\* nested Measurement exits and is reverted only by an unmask or by the exit
\* of the outermost Measurement.
C23_MaskOnOutermostStack == [][MaskOnOutermostStack]_vars

(* ------------------------- the running pointer ------------------------ *)
\* The outermost `with` block of some thread is a block of Measurement s.
OutermostOpen(s) ==
    \E t \in Threads :
        frames[t] # <<>> /\ frames[t][1].kind = "with" /\ frames[t][1].sess = s
PointerFollowsOutermost ==
    /\ \A s \in Sessions : running = s <=> OutermostOpen(s)
    /\ running = NoSess <=> ~\E s \in Sessions : OutermostOpen(s)
NestedKeepsPointer == OnNested({"enter", "exit", "exit_exc"}) => running' = running

\* C24: running_measurement is written only by the outermost Measurement:
\* entering or exiting a nested Measurement never changes it, it is set
\* exactly while an outermost Measurement is between its successful enter
\* and its exit, and it is None after the outermost exit, normal or not, and
\* after an enter that failed.
C24_PointerFollowsOutermost == []PointerFollowsOutermost /\ [][NestedKeepsPointer]_vars

(* --------------------------- sweep geometry --------------------------- *)
\* The next state follows a successful call `op` of the measurement thread.
Called(op) == last' # last /\ last'.op = op /\ last'.err = ""
SweepEnters ==
    Called("sweep_start") =>
        LET m == running
            sw == frames'[last'.thread][Len(frames'[last'.thread])].sw
        IN  /\ loop_shape'[m] = loop_shape[m] \o <<Len(sw.sequence)>>
            /\ loop_indices'[m] =
                 loop_indices[m] \o <<IF sw.reverse THEN Len(sw.sequence) - 1 ELSE 0>>
            /\ action_indices'[m] = action_indices[m] \o <<0>>
SweepLeaves ==
    Called("next_done") =>
        LET m == running
            pre == Top(last'.thread).pre
        IN  /\ loop_shape'[m] = pre.loop_shape
            /\ loop_indices'[m] = pre.loop_indices
            /\ Len(action_indices'[m]) = Len(pre.action_indices)
            /\ Front(action_indices'[m]) = Front(pre.action_indices)
            /\ Last(action_indices'[m]) = Last(pre.action_indices) + 1

\* C25: starting a sweep appends its length to loop_shape, an index to
\* loop_indices and a zero component to the action address; when the sweep
\* is exhausted, loop_shape and loop_indices are what they were before the
\* sweep started and the address is the address before the sweep with its
\* last component increased by one, also for an empty sequence and for a
\* reverse sweep.
C25_SweepGeometry == [][SweepEnters /\ SweepLeaves]_vars

\* A sweep over an empty sequence, started inside the loop of another
\* sweep, is exhausted.
C25_Witness ==
    /\ last.op = "next_done" /\ last.err = ""
    /\ loop_indices[running] # <<>>
    /\ LET ai == action_indices[running]
           pre == [ai EXCEPT ![Len(ai)] = @ - 1]
       IN  pre \in DOMAIN swept /\ swept[pre] = <<>>

(* ------------------------- one address per call ----------------------- *)
Inc(ai) == [ai EXCEPT ![Len(ai)] = @ + 1]
\* A measure call of a Parameter, MultiParameter, dict or raw value has
\* returned (a callable has only been called then: it returns at "call_end").
MeasureReturned ==
    /\ Called("measure")
    /\ LET fs == frames'[last'.thread] IN fs = <<>> \/ fs[Len(fs)].kind # "call"
MeasureAdvancesByOne ==
    /\ MeasureReturned => action_indices'[running'] = Inc(action_indices[running])
    /\ Called("call_end") => action_indices'[running'] = Inc(last'.ai)

OneArrayPerAddress ==
    /\ Len(arrays) = Cardinality(DOMAIN data_arrays) + Cardinality(DOMAIN set_arrays)
    /\ \A i \in 1..Len(arrays) :
          LET a == arrays[i] IN
          IF a.is_setpoint
          THEN a.action_indices \in DOMAIN set_arrays /\ set_arrays[a.action_indices] = i
          ELSE a.action_indices \in DOMAIN data_arrays /\ data_arrays[a.action_indices] = i
\* A result is delivered at the address A the measure call found: the first
\* one creates the measured array of A, a later one writes at the present
\* loop_indices into that array (and the set arrays of its axes) and
\* creates and registers nothing.
DeliveredOnce ==
    Called("measure") =>
        LET A == last'.ai IN
        IF A \in DOMAIN data_arrays
        THEN LET id == data_arrays[A] IN
             /\ Len(arrays') = Len(arrays)
             /\ data_arrays' = data_arrays
             /\ set_arrays' = set_arrays
             /\ \E j \in DOMAIN arrays'[id].data : IsPrefix(loop_indices[running], j)
             /\ \A i \in 1..Len(arrays) :
                   arrays'[i] # arrays[i] =>
                       i = id \/ \E k \in DOMAIN arrays[id].set_arrays : arrays[id].set_arrays[k] = i
        ELSE /\ Len(arrays') > Len(arrays)
             /\ A \in DOMAIN data_arrays'
             /\ data_arrays'[A] = Len(arrays')
\* A Sweep is constructed at an address that has a set array.
SweepReuses ==
    Called("sweep_start") /\ last'.ai \in DOMAIN set_arrays =>
        /\ arrays' = arrays
        /\ set_arrays' = set_arrays
        /\ frames'[last'.thread][Len(frames'[last'.thread])].sw.set_array = set_arrays[last'.ai]

\* C27: arrays are created once per address and never per iteration: the
\* first result delivered at an address creates its measured array, every
\* later delivery at that address writes into the same array, a Sweep
\* constructed again at an address that has a set array reuses it, and the
\* dataset holds exactly one array per registered address, however many
\* iterations the sweeps have run.
C27_ArraysOncePerAddress == []OneArrayPerAddress /\ [][DeliveredOnce /\ SweepReuses]_vars

\* A result is delivered in the second iteration of an outer sweep, inside
\* an inner sweep that was constructed again at its address.
C27_Witness ==
    /\ last.op = "measure" /\ last.err = ""
    /\ Len(loop_indices[running]) = 2
    /\ loop_indices[running][1] = 1
    /\ last.ai \in DOMAIN data_arrays
    /\ arrays[data_arrays[last.ai]].data # Empty

(* ------------------------- sequence mismatch -------------------------- *)
\* The next state follows a measure call, or the return of a measured
\* callable, that raised the sequence mismatch.
RaisedMismatch ==
    /\ last' # last
    /\ last'.op \in {"measure", "call_end"}
    /\ last'.err = "SequenceMismatch"
\* The next state follows a measure call under a name that differs from the
\* name bound at the address of the call.
OwnMismatch ==
    /\ last' # last
    /\ last'.op = "measure"
    /\ last'.bound # NoName
    /\ last'.name # last'.bound
\* No array is created, nothing is stored, the address and the registries
\* are as before, and no callable has been called.
Untouched ==
    /\ arrays' = arrays
    /\ data_arrays' = data_arrays
    /\ set_arrays' = set_arrays
    /\ log' = log
    /\ action_indices' = action_indices
    /\ action_names' = action_names
    /\ data_groups' = data_groups
    /\ \A t \in Threads : Len(frames'[t]) <= Len(frames[t])

StartedAtBound ==
    /\ running # NoSess
    /\ last' # last
    /\ last'.op \in {"sweep_start", "enter"}
    /\ last'.ai \in DOMAIN action_names[running]

\* C29: a Sweep or a nested session started at an address that an earlier
\* action bound to a different name raises the sequence mismatch instead of
\* reusing that address and its set array or data group.
C29_StartsVerified == [][StartedAtBound => last'.err = "SequenceMismatch"]_vars

(* ------------------------------ pausing ------------------------------- *)
Paused == running # NoSess /\ is_paused[running]
\* The next state follows a measure call or a sweep step of the measurement
\* thread: it began, or it left its pause loop.
CallStep ==
    /\ last' # last
    /\ last'.op \in {"measure", "measure_wait", "next", "next_wait", "next_done"}
\* While the measurement is paused, a measure call or sweep step that begins,
\* and every step taken while such a call waits, calls no device, stores
\* nothing and changes neither the address nor loop_indices; the call that
\* begins waits, or raises the error of its checks.
HeldWhilePaused ==
    Paused /\ (CallStep \/ Waiting(1)) =>
        /\ arrays' = arrays
        /\ data_arrays' = data_arrays
        /\ set_arrays' = set_arrays
        /\ log' = log
        /\ action_indices' = action_indices
        /\ loop_indices' = loop_indices
        /\ CallStep => Waiting(1)' \/ last'.err # ""
\* resume() has been called while a call waits in its pause loop.
ResumedWaiting == Waiting(1) /\ last.op = "resume"

\* C30 as stated: while the running session is paused a measure call or
\* sweep step that begins performs no device call, no store and no change
\* of address or loop_indices until resume() or stop() is called, and once
\* resume() has been called the waiting call eventually proceeds.
C30_ResumedProceeds == [][HeldWhilePaused]_vars /\ (ResumedWaiting ~> ~Waiting(1))

\* C30: while the running session is paused a measure call or sweep step
\* that begins performs no device call, no store and no change of address
\* or loop_indices until resume() or stop() is called, from whichever
\* thread; and once resume() has been called the waiting call eventually
\* proceeds and completes, unless pause() is called again before the call
\* has read the flag.
C30_ResumedProceedsUnlessPaused ==
    [][HeldWhilePaused]_vars /\ (ResumedWaiting ~> (~Waiting(1) \/ Paused))

\* In the second iteration a measure call waits in its pause loop and
\* thread 2 has called resume().
C30_Witness ==
    /\ ResumedWaiting
    /\ ~Paused
    /\ last.thread = 2
    /\ Top(1).owner = NoThread
    /\ loop_indices[running] = <<1>>

(* --------------------------- stop terminates -------------------------- *)
\* stop() has been called on the running measurement / the measurement that
\* was stopped has left its outermost block (its thread is in no pause loop
\* and in no block any more).
Stopped == running # NoSess /\ is_stopped[running]
StoppedAndLeft ==
    /\ running = NoSess
    /\ frames[1] = <<>>
    /\ \E s \in Sessions : is_stopped[s] /\ ~is_context_manager[s] /\ ~dataset.active
\* stop() leaves the measurement stopped and not paused.
StopResumes ==
    last' # last /\ last'.op = "stop" => is_stopped'[running] /\ ~is_paused'[running]
\* No sweep value is produced once the stopped measurement has left its block.
NoValueAfterStop ==
    StoppedAndLeft => ~(last' # last /\ last'.op = "next" /\ last'.err = "")

\* C31: after stop() is called on a running measurement, paused or not, the
\* measurement is not paused, the measurement thread leaves any pause loop,
\* the sequence reaches the exit of the outermost measurement and no sweep
\* value is produced from then on; only a pause() called after the stop
\* can delay this.
C31_StopTerminates ==
    /\ [][StopResumes /\ NoValueAfterStop]_vars
    /\ (Stopped /\ ~Paused) ~> (StoppedAndLeft \/ Paused)

\* The measurement that was stopped while its thread waited in a pause
\* loop has left its outermost block with the controlled stop.
C31_Witness ==
    /\ StoppedAndLeft
    /\ last.op = "exit_exc"
    /\ log # Empty

(* ------------------------- closing the dataset ------------------------ *)
\* The dataset holds an array that is no setpoint array.
HasMeasuredArray == \E i \in 1..Len(arrays) : ~arrays[i].is_setpoint
ClosedByContent ==
    OutermostExit =>
        /\ dataset'.finalized <=> HasMeasuredArray
        /\ ~dataset'.finalized => dataset'.saved
        /\ ~dataset'.active
        /\ arrays' = arrays

\* C32: at the exit of the outermost measurement the dataset is finalized if
\* and only if it holds at least one array that is no setpoint array; when
\* it holds setpoint arrays only, or no array, finalize is skipped and the
\* metadata is saved; in both cases the dataset is not active afterwards.
C32_FinalizedIffMeasured == [][ClosedByContent]_vars

\* The outermost measurement has exited with a dataset of setpoint arrays
\* only, which is not finalized.
C32_Witness ==
    /\ last.op = "exit" /\ running = NoSess
    /\ arrays # <<>> /\ ~HasMeasuredArray
    /\ ~dataset.finalized /\ ~dataset.active /\ dataset.saved

(* --------------------------- restoring sweeps ------------------------- *)
\* The next state follows the exhaustion of a sweep of P with restore=True;
\* no mask was made inside its loop, so the newest record of the running
\* measurement is the one the sweep pushed when it started iterating.
RestoreSweepExhausted ==
    /\ Called("next_done")
    /\ Top(last'.thread).sw.restore
    /\ masked_properties[running] # <<>>
    /\ Last(masked_properties[running]).type = "parameter"
RestoresOwnRecord ==
    RestoreSweepExhausted =>
        /\ target'[PValue] = Last(masked_properties[running]).original_value
        /\ masked_properties'[running] = Front(masked_properties[running])

\* C33: when a sweep with restore=True is exhausted, the swept parameter
\* holds the value it had immediately before the sweep started iterating,
\* and only the mask record the sweep pushed is removed: an earlier mask of
\* the same parameter stays on the stack and is not written back.
C33_RestoresOwnRecord == [][RestoresOwnRecord]_vars

(* ---------------------------- reverse sweeps -------------------------- *)
\* The sweep thread 1 is iterating, and the address it was constructed at.
TheSweep == Top(1).sw
SweepAddress == Top(1).pre.action_indices
\* Array id holds sequence[i] at index i, for every i.
HoldsSequence(arr, id, seq) ==
    /\ id \in 1..Len(arr)
    /\ \A i \in 0..(Len(seq) - 1) :
          <<i>> \in DOMAIN arr[id].data /\ arr[id].data[<<i>>] = seq[i + 1]
\* The k-th value a sweep produces is the k-th of the sequence, forward, and
\* the k-th from its end, in reverse.
ProducesInOrder ==
    Called("next") =>
        LET sw == TheSweep
            k == sw.pos + 1
        IN  last'.ret = <<IF sw.reverse THEN sw.sequence[Len(sw.sequence) + 1 - k]
                          ELSE sw.sequence[k]>>
\* At exhaustion the set array of the sweep, and the array of the loop
\* variable measured in its body, hold sequence[i] at index i.
ExhaustedHoldsSequence ==
    Called("next_done") =>
        LET sw == TheSweep IN
        /\ HoldsSequence(arrays', sw.set_array, sw.sequence)
        /\ sw.sequence # <<>> =>
              /\ SweepAddress \o <<0>> \in DOMAIN data_arrays'
              /\ HoldsSequence(arrays', data_arrays'[SweepAddress \o <<0>>], sw.sequence)

\* C34: a reverse sweep over a sequence of length n produces the values last
\* to first, and after exhaustion its set array holds sequence[i] at index i
\* for every i in 0..n-1 and a result measured while the sweep value was
\* sequence[i] is stored at loop index i: the array contents a forward sweep
\* over the same sequence leaves.
C34_ReverseSweepSameArrays == [][ProducesInOrder /\ ExhaustedHoldsSequence]_vars

\* A reverse sweep over <<1, 0, 0>> has produced its three values, the loop
\* variable measured after each: the next call of __next__ exhausts it.
C34_Witness ==
    /\ last.op = "measure" /\ last.err = ""
    /\ Top(1).kind = "for" /\ TheSweep.reverse
    /\ TheSweep.sequence = <<1, 0, 0>> /\ TheSweep.pos = 3
    /\ <<0, 0>> \in DOMAIN data_arrays
    /\ arrays[data_arrays[<<0, 0>>]].data = (<<0>> :> 1) @@ (<<1>> :> 0) @@ (<<2>> :> 0)
    /\ arrays[TheSweep.set_array].data = arrays[data_arrays[<<0, 0>>]].data

(* --------------------------- measuring callables ---------------------- *)
\* The callable being measured has returned to _measure_callable.
CallEnds == last' # last /\ last'.op = "call_end"
\* The body of the callable being measured ran a block of its own: a nested
\* Measurement, entered at the address of the measure call, with the
\* loop_indices of the caller.
BodyNested == Top(last'.thread).sess # NoSess
\* The entries of the dict the callable returned were measured in one
\* Measurement that the call constructed and registered at its address.
Wrapped ==
    LET m == running
        A == last'.ai
    IN  /\ A \in DOMAIN data_groups'[m]
        /\ data_groups'[m][A] = DataGroup(NoSess, loop_indices[m])
        /\ \A k \in 1..Len(OneItem) :
              /\ A \o <<k - 1>> \in DOMAIN data_arrays'
              /\ \E j \in DOMAIN arrays'[data_arrays'[A \o <<k - 1>>]].data :
                    IsPrefix(loop_indices[m], j)
        /\ action_indices'[m] = Inc(A)
AcceptedOrWrapped ==
    CallEnds =>
        IF BodyNested
        THEN /\ last'.err = ""
             /\ data_groups' = data_groups
             /\ arrays' = arrays
             /\ data_arrays' = data_arrays
        ELSE IF last'.call = <<"dict">>
        THEN last'.err = "" /\ Wrapped
        ELSE last'.err = "SyntaxError"

\* C35: measuring a callable: if its body opened a nested Measurement at the
\* address of the call whose loop_indices equal the present ones, no
\* Measurement is constructed around the return value and no second data
\* group is registered; otherwise the return value must be a dict, each
\* entry of which is measured under one Measurement the call constructs,
\* and a value that is no dict raises an error; a data group left at the
\* address by an earlier iteration of a sweep never makes the call skip
\* the wrapping.
C35_CallableAcceptedOrWrapped == [][AcceptedOrWrapped]_vars

(* ------------------------------ timestamps ---------------------------- *)
\* A measure call <<measurable, name, timestamp, pre, post>> has been made
\* on a nested Measurement / on the running one.
TimedCall == last' # last /\ last'.op = "measure" /\ last'.call # <<>> /\ running # NoSess
NestedCall == TimedCall /\ last'.sess # running
\* What the call leaves is what the same call on the running measurement
\* leaves: the error, the arrays and what they hold, the names and the
\* action address of the running measurement.
NestedAsOutermost ==
    NestedCall =>
        LET c == last'.call
            S == MeasureWith(St, running, c[1], c[2], c[3], c[4], c[5])
        IN  /\ last'.err = S.err
            /\ arrays' = S.arrays
            /\ data_arrays' = S.data_arrays
            /\ set_arrays' = S.set_arrays
            /\ action_names'[running] = S.action_names[running]
            /\ action_indices'[running] = S.action_indices[running]

\* C36: a measure call made on a nested Measurement has the effect of the
\* same call made on the running outermost Measurement, for every argument,
\* timestamp included: the same results are stored at the same addresses
\* and the action address of the outermost Measurement ends at the same
\* value.
C36_NestedAsOutermost == [][NestedAsOutermost]_vars

\* A measure call of a raw value in timestamp mode has returned on the
\* running measurement.
TimestampedValue ==
    /\ TimedCall /\ last'.sess = running /\ last'.err = ""
    /\ last'.call[3] /\ last'.call[1].kind = "raw"
Plus(A, k) == [A EXCEPT ![Len(A)] = @ + k]
\* The measured array of the given name at address A holds a value at the
\* present loop_indices.
StoredAt(A, name) ==
    /\ A \in DOMAIN data_arrays'
    /\ arrays'[data_arrays'[A]].name = name
    /\ \E j \in DOMAIN arrays'[data_arrays'[A]].data : IsPrefix(loop_indices[running], j)
ThreeConsecutive ==
    TimestampedValue =>
        LET A == last'.ai IN
        /\ StoredAt(A, "T_pre")
        /\ StoredAt(Plus(A, 1), last'.call[2])
        /\ StoredAt(Plus(A, 2), "T_post")
        /\ action_indices'[running] = Plus(A, 3)

\* C37: in timestamp mode a measure call of a bare value stores exactly
\* three results, the time before, the value and the time after, in that
\* order at three consecutive addresses, so that the call increases the last
\* component of the action address by exactly three.
C37_TimestampThreeConsecutive == [][ThreeConsecutive]_vars

(* --------------------------- skip and revert -------------------------- *)
\* C38: every component of the action address of the outermost Measurement
\* is a non-negative integer in every reachable state, after any sequence
\* of measure calls, sweeps, nested measurements, skip(N) and revert(N).
C38_AddressNonNegative ==
    running # NoSess =>
        \A i \in 1..Len(action_indices[running]) : action_indices[running][i] >= 0

\* The cell of an array a scalar measured at loop indices li is written to.
Cell(li) == IF li = <<>> THEN <<0>> ELSE li
\* measure(v2, name) is called at an address A whose array holds a value at
\* the present loop indices, under the name registered at A: the address
\* has been reverted to.
Restores ==
    /\ last' # last /\ last'.op = "measure"
    /\ last'.ai \in DOMAIN data_arrays
    /\ Cell(loop_indices[running]) \in DOMAIN arrays[data_arrays[last'.ai]].data
    /\ last'.name = last'.bound
Overwrites ==
    Restores =>
        LET A == last'.ai
            li == loop_indices[running]
            id == data_arrays[A]
        IN  /\ last'.err = ""
            /\ <<A, li>> \in DOMAIN log'
            /\ arrays'[id].data[Cell(li)] = log'[<<A, li>>]
            /\ Len(arrays') = Len(arrays)
            /\ data_arrays' = data_arrays
            /\ set_arrays' = set_arrays
            /\ \A i \in 1..Len(arrays) : i # id => arrays'[i] = arrays[i]
            /\ action_indices'[running] = Inc(A)
\* skip and revert change the last component of the action address of the
\* running measurement and nothing else.
OnlyLastComponent ==
    Called("skip") \/ Called("revert") =>
        /\ Len(action_indices'[running]) = Len(action_indices[running])
        /\ Front(action_indices'[running]) = Front(action_indices[running])
        /\ \A s \in Sessions : s # running => action_indices'[s] = action_indices[s]
        /\ UNCHANGED <<running, measurement_thread, is_context_manager, is_paused,
                       is_stopped, loop_shape, loop_indices, action_names, data_groups,
                       masked_properties, data_arrays, set_arrays, arrays, dataset,
                       target, except_actions, final_actions>>

\* C39: storing again at a reverted address is an overwrite: after
\* measure(v1, name), revert(1) and measure(v2, name) with unchanged loop
\* indices the array at the address holds v2 at those loop indices, no array
\* has been created, no sequence mismatch is raised and the action address
\* ends where it was after the first measure call; revert and skip change
\* only the last component of the address of the outermost Measurement.
C39_RevertedIsOverwritten == [][Overwrites /\ OnlyLastComponent]_vars

\* In the first iteration of a sweep the second measure call of the body
\* has stored 1 at the address the first one stored at: it was reverted to.
C39_Witness ==
    /\ last.op = "measure" /\ last.err = "" /\ last.bound = "a"
    /\ Top(1).kind = "for" /\ Top(1).n = 2
    /\ loop_indices[running] = <<0>>
    /\ action_indices[running] = Inc(last.ai)
    /\ arrays[data_arrays[last.ai]].data = (<<0>> :> 1)
    /\ Len(arrays) = 2

(* ------------------------ the length of the address ------------------- *)
\* The nested Measurements thread 1 has open: its with blocks but the
\* outermost.
OpenNested == Len(SelectSeq(OpenSess(frames[1]), LAMBDA s : s # running))
MeasureStarts == last' # last /\ last'.op \in {"measure", "measure_wait"} /\ running # NoSess
LengthAtMeasure ==
    MeasureStarts =>
        Len(action_indices[running]) = 1 + Len(loop_shape[running]) + OpenNested
LengthSteps ==
    LET m == running
        n == Len(action_indices[m])
    IN  /\ Called("sweep_start") => Len(action_indices'[m]) = n + 1
        /\ Called("enter") /\ m # NoSess => Len(action_indices'[m]) = n + 1
        /\ Called("next_done") => Len(action_indices'[m]) = n - 1
        /\ Called("exit") /\ running' # NoSess => Len(action_indices'[m]) = n - 1

\* C40: at the start of every measure call of a well-nested program the
\* length of the action address of the outermost Measurement is
\* 1 + len(loop_shape) + the number of nested Measurements open; the start
\* of a sweep and the entry of a nested Measurement each add one component,
\* the exhaustion of a sweep and the exit of a nested Measurement each
\* remove one.
C40_AddressLength == [][LengthAtMeasure /\ LengthSteps]_vars

\* A measure call has been made inside a sweep inside a nested Measurement.
C40_Witness ==
    /\ last.op = "measure" /\ last.err = ""
    /\ Len(last.ai) = 3
    /\ Len(loop_shape[running]) = 1
    /\ OpenNested = 1

====
